---- MODULE Spec2Model ----
(***************************************************************************)
(* A model of the client-go cache/workqueue core:                          *)
(*   - util/workqueue/queue.go            the work queue (Type)            *)
(*   - util/workqueue/default_rate_limiters.go   the per-item limiters     *)
(*   - tools/cache/thread_safe_store.go   the indexed thread-safe store    *)
(*   - tools/cache/controller.go          the informer processor and the   *)
(*                                        filtering event handler          *)
(* Each subsystem has its own specification (SpecWQ, SpecRL, SpecStore,    *)
(* SpecInformer, SpecFilter); the variables of the other subsystems stay   *)
(* at their initial values.                                                *)
(***************************************************************************)
EXTENDS Integers, Sequences, FiniteSets, TLC

\* ------------------------------------------------------------------------
\* Bounds of the model
\* ------------------------------------------------------------------------
NumItems == 2
NumWorkers == 2
MaxCalls == 5       \* When calls per item between two Forgets
NumKeys == 2        \* store keys
NumObjs == 3        \* objects
NumVersions == 2    \* resource versions of an object the informer sees
MaxDeltas == 2      \* deltas in one popped Deltas
MaxErrors == 2      \* calls of Process that fail during one Run
MaxList == 2        \* objects in the list handed to cache.Replace
MaxLen == 2         \* characters in a namespace or a name
MaxEvents == 2      \* calls the producers make on the Delta FIFO

Items == 1..NumItems
Workers == 1..NumWorkers

VARIABLES
  \* util/workqueue/queue.go, Type
  queue,          \* []t: the order in which items are handed out
  dirty,          \* set: items that need processing
  processing,     \* set: items handed out by Get and not yet Done
  shuttingDown,   \* bool
  waitPc,         \* worker -> "idle" | "waiting" (in cond.Wait) | "woken"
                  \*           (signalled, lock not yet re-acquired) | "working"
  held,           \* worker -> the items (none or one) its last Get returned
                  \*           and it has not called Done for
  gotShutdown,    \* worker -> TRUE when its last Get returned shutdown = true
  lastCall,       \* history: the last call made on the queue
  firstAdds,      \* history: items in the order of their first Add
  firstGets,      \* history: items in the order of their first return by Get
  atShutDown,     \* history: the queue at the first call of ShutDown
  getsSince       \* history: the items Get has returned since that call

VARIABLES
  \* util/workqueue/default_rate_limiters.go
  limiter,        \* the limiter under test: its kind and its configuration
  failures,       \* map[interface{}]int of the limiter: item -> failures
  rlRet,          \* the value the last When returned
  rlLast,         \* history: the last call made on the limiter
  calls,          \* history: item -> When calls since creation / last Forget
  firstRet,       \* history: item -> the value(s) of its very first When
  wasForgotten    \* history: item -> a Forget has cleared a count of the item

VARIABLES
  \* tools/cache/thread_safe_store.go, threadSafeMap
  items,          \* map[string]interface{}: key -> object
  indexers,       \* Indexers: the names of the registered index functions
  indices,        \* Indices: index name -> index value -> set of keys
  storeLocked,    \* c.lock is held by a Replace that has not returned
  replaceTodo,    \* the keys the loop of that Replace has not visited yet
  lastStore       \* history: the last call made on the store, with the
                  \*          object(s) the key held before it

wqVars == <<queue, dirty, processing, shuttingDown, waitPc, held, gotShutdown,
            lastCall, firstAdds, firstGets, atShutDown, getsSince>>

rlVars == <<limiter, failures, rlRet, rlLast, calls, firstRet, wasForgotten>>

VARIABLES
  moLimiters,    \* MaxOfRateLimiter.limiters: the children, in order
  moFailures,    \* the failures map of each child
  moRet,         \* the value the last When of the MaxOfRateLimiter returned
  moLast,        \* history: the last call on the MaxOfRateLimiter
  moChildRets,   \* history: what each child's When returned in the last When
  moCalls        \* history: the Whens of each item since its last Forget

moVars == <<moLimiters, moFailures, moRet, moLast, moChildRets, moCalls>>

VARIABLES
  waitingForAdd, \* delaying queue: the items handed to AddAfter and not yet
                 \*                 released to the queue
  afterLast      \* history: the arguments of the last AddAfter

dqVars == <<waitingForAdd, afterLast>>

VARIABLES
  keyNamespace,  \* the namespace and the name of the object a key is built for
  keyName,
  keyGiven,      \* a key that comes from elsewhere
  keyStr,        \* the key at hand
  keySplit,      \* what SplitMetaNamespaceKey returned for it
  keyPc          \* "new" | "built" | "given" | "builtSplit" | "givenSplit"

keyVars == <<keyNamespace, keyName, keyGiven, keyStr, keySplit, keyPc>>

VARIABLES
  \* the Delta FIFO
  fifoItems,               \* key -> Deltas
  fifoQueue,               \* the keys in the order they are popped
  populated,
  initialPopulationCount,
  knownObjects,            \* key -> object: the store the informer wires in
  producerCalls,           \* history: the calls the producers have made
  accepted,                \* history: key -> the deltas accepted for it
  handed,                  \* history: key -> the deltas handed to the
                           \*          process function for it
  kept,                    \* history: key -> the deltas handed in calls that
                           \*          were not followed by a put-back
  fifoPhase,               \* history: "fresh", "replaced" (a first Replace
                           \*          and since then only Pops), "mixed"
  firstReplace             \* history: the list of that Replace and the
                           \*          known objects at the time

fifoVars == <<fifoItems, fifoQueue, populated, initialPopulationCount,
              knownObjects, producerCalls, accepted, handed, kept, fifoPhase,
              firstReplace>>

VARIABLES
  \* tools/cache controller: newInformer's Process and the handler h
  dkey,           \* the key of the Deltas Pop handed to Process, as a set
  dn,             \* the length of that Deltas; 0 outside Process
  di,             \* index in the Deltas of the delta being handled
  delta,          \* <<d>>, d the delta at index di, from its store call on
  infPc,          \* "idle", "store" (before the store call of the delta),
                  \* "notify" (before the handler call of the delta)
  infOld,         \* the locals old/exists: the object Get returned, as a set
  procErr,        \* what Process returned; "none" before and while it runs
  lastNotify,     \* history: the last call made on the handler h
  handlerView,    \* history: key -> the new object of the most recent call
                  \* made on h for the key when that call is OnAdd or
                  \* OnUpdate, as a set; empty when it is OnDelete or
                  \* when there was no call
  procCalls       \* history: the store mutations and handler calls Process
                  \* has made for the Deltas of the last Pop, each
                  \* <<"store" or "notify", index, delta>>, and
                  \* <<"error", index, delta>> for a store call that
                  \* returned an error

VARIABLES
  \* FilteringResourceEventHandler
  filterPass,     \* FilterFunc: the objects for which it returns true
  upstream,       \* history: the last call made on the filtering handler
  forwarded,      \* history: the calls that call made on the nested Handler
  nestedHeld,     \* history: the nested Handler holds an object as added
                  \* (its last OnAdd was not followed by an OnDelete)
  streamObj       \* the object the caller of the filtering handler last
                  \* reported, as a set; empty before OnAdd and after OnDelete

VARIABLES
  \* tools/cache controller: Run and processLoop
  retryOnError,   \* Config.RetryOnError
  stopCh,         \* stopCh is closed
  queueClosed,    \* Queue.Close() has been called
  queued,         \* the keys the Queue holds
  closerPc,       \* the goroutine of line 147: "wait", "done"
  reflectorPc,    \* the goroutine running r.Run: "running", "done"
  runPc,          \* Run's own goroutine: "until" (wait.Until tests stopCh),
                  \* "pop" (processLoop calls Pop), "handle" (Pop returned),
                  \* "sleep" (processLoop returned), "wgwait", "returned"
  popObj,         \* obj returned by the last Pop, as a set
  popErr,         \* err returned by the last Pop
  requeued,       \* history: the AddIfNotPresent calls made for the last Pop
  errCount        \* history: how many calls of Process have failed, where
                  \* the failures are bounded

storeVars == <<items, indexers, indices, storeLocked, replaceTodo, lastStore>>

infVars == <<dkey, dn, di, delta, infPc, infOld, procErr, lastNotify,
            procCalls, handlerView>>

filterVars == <<filterPass, upstream, forwarded, nestedHeld, streamObj>>

ctlVars == <<retryOnError, stopCh, queueClosed, queued, closerPc, reflectorPc,
             runPc, popObj, popErr, requeued, errCount>>

vars == <<wqVars, rlVars, moVars, dqVars, keyVars, fifoVars, storeVars, infVars, filterVars, ctlVars>>

Range(s) == {s[i] : i \in DOMAIN s}


\* ------------------------------------------------------------------------
\* util/workqueue/queue.go
\* ------------------------------------------------------------------------

\* newQueue: empty queue, empty sets, not shutting down; no worker has called.
InitWQ ==
  /\ queue = <<>>
  /\ dirty = {}
  /\ processing = {}
  /\ shuttingDown = FALSE
  /\ waitPc = [w \in Workers |-> "idle"]
  /\ held = [w \in Workers |-> {}]
  /\ gotShutdown = [w \in Workers |-> FALSE]
  /\ lastCall = <<"new">>
  /\ firstAdds = <<>>
  /\ firstGets = <<>>
  /\ atShutDown = <<>>
  /\ getsSince = <<>>

\* sync.Cond.Signal: wakes one goroutine waiting on the condition, if any.
\* The result is the set of possible successor values of waitPc.
Signal_none(p) == {p}

Signal(p) ==
  IF \E w \in Workers : p[w] = "waiting"
    THEN {[p EXCEPT ![w] = "woken"] : w \in {u \in Workers : p[u] = "waiting"}}
    ELSE {p}

\* sync.Cond.Broadcast: wakes every goroutine waiting on the condition.
Broadcast_none(p) == p

Broadcast(p) ==
  [w \in Workers |-> IF p[w] = "waiting" THEN "woken" ELSE p[w]]

\* Type.Add, lines 120-126: the call is dropped when the queue is shutting
\* down or the item is already marked dirty.
AddIgnores_noDirtyCheck(item) == shuttingDown

AddIgnores_noShutDownCheck(item) == item \in dirty

AddIgnores(item) == shuttingDown \/ item \in dirty

\* Type.Add, lines 135-137: an item that is being processed is only marked
\* dirty; Done will queue it.
AddDefers_never(item) == FALSE

AddDefers(item) == item \in processing

\* q.queue = append(q.queue, item), lines 140 and 195.
Enqueue_front(q, item) == <<item>> \o q

Enqueue(q, item) == Append(q, item)

\* Type.Add
Add(item) ==
  /\ lastCall' = <<"Add", item>>
  /\ firstAdds' = IF item \in Range(firstAdds) THEN firstAdds
                  ELSE Append(firstAdds, item)
  /\ IF AddIgnores(item)
       THEN UNCHANGED <<queue, dirty, waitPc>>
       ELSE /\ dirty' = dirty \cup {item}
            /\ IF AddDefers(item)
                 THEN UNCHANGED <<queue, waitPc>>
                 ELSE /\ queue' = Enqueue(queue, item)
                      /\ waitPc' \in Signal(waitPc)
  /\ UNCHANGED <<processing, shuttingDown, held, gotShutdown, firstGets,
                 atShutDown, getsSince>>

\* Type.Get from the loop test on: the caller w holds the lock.
GetBody(w) ==
  IF Len(queue) = 0 /\ ~shuttingDown
    THEN \* q.cond.Wait()
         /\ waitPc' = [waitPc EXCEPT ![w] = "waiting"]
         /\ UNCHANGED <<queue, dirty, processing, held, gotShutdown, firstGets,
                        getsSince>>
    ELSE IF Len(queue) = 0
      THEN \* return nil, true
           /\ waitPc' = [waitPc EXCEPT ![w] = "idle"]
           /\ gotShutdown' = [gotShutdown EXCEPT ![w] = TRUE]
           /\ UNCHANGED <<queue, dirty, processing, held, firstGets, getsSince>>
      ELSE \* item, q.queue = q.queue[0], q.queue[1:]
           LET item == Head(queue) IN
           /\ queue' = Tail(queue)
           /\ processing' = processing \cup {item}
           /\ dirty' = dirty \ {item}
           /\ held' = [held EXCEPT ![w] = {item}]
           /\ gotShutdown' = [gotShutdown EXCEPT ![w] = FALSE]
           /\ waitPc' = [waitPc EXCEPT ![w] = "working"]
           /\ firstGets' = IF item \in Range(firstGets) THEN firstGets
                           ELSE Append(firstGets, item)
           /\ getsSince' = IF shuttingDown THEN Append(getsSince, item)
                           ELSE getsSince

\* Type.Get, entry: worker w calls Get.
Get(w) ==
  /\ waitPc[w] = "idle"
  /\ lastCall' = <<"Get", w>>
  /\ GetBody(w)
  /\ UNCHANGED <<shuttingDown, firstAdds, atShutDown>>

\* Type.Get, return from q.cond.Wait(): the signalled worker re-acquires the
\* lock and tests the loop condition again.
GetWake(w) ==
  /\ waitPc[w] = "woken"
  /\ lastCall' = <<"GetWake", w>>
  /\ GetBody(w)
  /\ UNCHANGED <<shuttingDown, firstAdds, atShutDown>>

\* Type.Done, test of line 194: a dirty item goes back to the queue.
DoneRequeues_never(item) == FALSE

DoneRequeues_always(item) == TRUE

DoneRequeues(item) == item \in dirty

\* Type.Done, called by the worker that Get handed the item to.
Done(w) ==
  /\ waitPc[w] = "working"
  /\ LET item == CHOOSE x \in held[w] : TRUE
         p == [waitPc EXCEPT ![w] = "idle"]
     IN /\ lastCall' = <<"Done", item>>
        /\ processing' = processing \ {item}
        /\ IF DoneRequeues(item)
             THEN /\ queue' = Enqueue(queue, item)
                  /\ waitPc' \in Signal(p)
             ELSE /\ queue' = queue
                  /\ waitPc' = p
        /\ held' = [held EXCEPT ![w] = {}]
  /\ UNCHANGED <<dirty, shuttingDown, gotShutdown, firstAdds, firstGets,
                 atShutDown, getsSince>>

\* Type.ShutDown
ShutDown ==
  /\ lastCall' = <<"ShutDown">>
  /\ shuttingDown' = TRUE
  /\ waitPc' = Broadcast(waitPc)
  /\ atShutDown' = IF shuttingDown THEN atShutDown ELSE queue
  /\ UNCHANGED <<queue, dirty, processing, held, gotShutdown, firstAdds,
                 firstGets, getsSince>>

\* Type.Len
QLen == Len(queue)

\* ------------------------------------------------------------------------
\* util/workqueue/default_rate_limiters.go
\*
\* Durations are int64 nanosecond counts in the code.  The model counts them
\* in units of 2^56 ns, so that the int64 range is -128 .. 128 units
\* (exclusive at the top) and every value below is an exact multiple of the
\* unit: multiplying by a power of two, comparing and taking the minimum
\* are the same in both scales, and float64 represents all of them exactly.
\* ------------------------------------------------------------------------

\* float64(math.MaxInt64): the constant of the test of line 104.  MaxInt64 is
\* 2^63 - 1, which float64 rounds to 2^63 ns = 128 units.
MaxInt64F == 128

\* math.MinInt64 = -2^63 ns = -128 units.
MinInt64 == 0 - MaxInt64F

RECURSIVE Pow2(_)
\* math.Pow(2, float64(exp))
Pow2(n) == IF n = 0 THEN 1 ELSE 2 * Pow2(n - 1)

Min(a, b) == IF a <= b THEN a ELSE b

\* The limiters the model is run with.
BaseDelays == {1, 10, 16}
MaxDelays == {40, 100}
FastDelays == {5}
SlowDelays == {50}
MaxFastAttemptss == {0, 1, 2}

Limiters ==
  {[kind |-> "exp", baseDelay |-> b, maxDelay |-> m] :
      b \in BaseDelays, m \in MaxDelays}
  \cup
  {[kind |-> "fastslow", fastDelay |-> f, slowDelay |-> sl, maxFastAttempts |-> a] :
      f \in FastDelays, sl \in SlowDelays, a \in MaxFastAttemptss}

EmptyMap == [x \in {} |-> 0]

\* NewItemExponentialFailureRateLimiter, NewItemFastSlowRateLimiter: an empty
\* failures map and the given configuration.
InitRL ==
  /\ limiter \in Limiters
  /\ failures = EmptyMap
  /\ rlRet = 0
  /\ rlLast = <<"new">>
  /\ calls = [x \in Items |-> 0]
  /\ firstRet = [x \in Items |-> {}]
  /\ wasForgotten = [x \in Items |-> FALSE]

\* No limiter: the state of these variables in the other specifications.
IdleRL ==
  /\ limiter = [kind |-> "none"]
  /\ failures = EmptyMap
  /\ rlRet = 0
  /\ rlLast = <<"new">>
  /\ calls = [x \in Items |-> 0]
  /\ firstRet = [x \in Items |-> {}]
  /\ wasForgotten = [x \in Items |-> FALSE]

\* r.failures[item]: a missing key reads as 0.
FailuresOf(f, item) == IF item \in DOMAIN f THEN f[item] ELSE 0

\* r.failures[item] = r.failures[item] + 1
FailuresAfterWhen(f, item) ==
  [y \in DOMAIN f \cup {item} |->
     IF y = item THEN FailuresOf(f, item) + 1 ELSE f[y]]

\* delete(r.failures, item)
FailuresAfterForget_clearAll(f, item) == EmptyMap

FailuresAfterForget(f, item) == [y \in DOMAIN f \ {item} |-> f[y]]

\* time.Duration(backoff), line 109: the conversion of a float64 to int64.
\* A value the int64 cannot hold (2^63 and above) converts to an
\* implementation-dependent result: math.MinInt64 on amd64, the saturated
\* math.MaxInt64 on arm64.  The saturated value, 2^63 - 1 ns, is no multiple
\* of the unit; it is only compared with maxDelay, which it exceeds, and is
\* modelled by 128.
ToDuration(backoff) ==
  IF backoff < MaxInt64F THEN {backoff} ELSE {MinInt64, MaxInt64F}

\* ItemExponentialFailureRateLimiter.When, lines 103-114: the values the call
\* can return when the item has failed exp times before.
ExpBackoff(l, exp) ==
  LET backoff == l.baseDelay * Pow2(exp)
  IN IF backoff > MaxInt64F
       THEN {l.maxDelay}
       ELSE {IF calculated > l.maxDelay THEN l.maxDelay ELSE calculated :
               calculated \in ToDuration(backoff)}

\* ItemFastSlowRateLimiter.When, lines 162-166: n is the count after the
\* increment of line 160.
FastSlowDelay_strict(l, n) ==
  IF n < l.maxFastAttempts THEN l.fastDelay ELSE l.slowDelay

FastSlowDelay(l, n) ==
  IF n <= l.maxFastAttempts THEN l.fastDelay ELSE l.slowDelay

\* The values When(item) can return in the current state.
WhenResults(l, f, item) ==
  IF l.kind = "exp"
    THEN ExpBackoff(l, FailuresOf(f, item))
    ELSE {FastSlowDelay(l, FailuresOf(f, item) + 1)}

\* ItemExponentialFailureRateLimiter.When / ItemFastSlowRateLimiter.When
When(item) ==
  /\ calls[item] < MaxCalls
  /\ rlLast' = <<"When", item>>
  /\ failures' = FailuresAfterWhen(failures, item)
  /\ rlRet' \in WhenResults(limiter, failures, item)
  /\ calls' = [calls EXCEPT ![item] = @ + 1]
  /\ firstRet' = IF firstRet[item] = {} /\ ~wasForgotten[item]
                   THEN [firstRet EXCEPT ![item] = {rlRet'}]
                   ELSE firstRet
  /\ UNCHANGED <<limiter, wasForgotten>>

\* ItemExponentialFailureRateLimiter.NumRequeues / ItemFastSlowRateLimiter.NumRequeues
NumRequeues(item) == FailuresOf(failures, item)

\* ItemExponentialFailureRateLimiter.Forget / ItemFastSlowRateLimiter.Forget
Forget(item) ==
  /\ rlLast' = <<"Forget", item>>
  /\ failures' = FailuresAfterForget(failures, item)
  /\ calls' = [calls EXCEPT ![item] = 0]
  /\ wasForgotten' = [wasForgotten EXCEPT ![item] = @ \/ calls[item] > 0]
  /\ UNCHANGED <<limiter, rlRet, firstRet>>

\* ------------------------------------------------------------------------
\* MaxOfRateLimiter (util/workqueue/default_rate_limiters.go)
\* ------------------------------------------------------------------------

\* The lists of children the model is run with: none, one or two of the
\* per-item limiters above.
ChildLists ==
  {<<>>} \cup {<<a>> : a \in Limiters} \cup {<<a, b>> : a \in Limiters, b \in Limiters}

\* NewMaxOfRateLimiter(limiters...): every child is new.
InitMaxOf ==
  /\ moLimiters \in ChildLists
  /\ moFailures = [i \in DOMAIN moLimiters |-> EmptyMap]
  /\ moRet = 0
  /\ moLast = <<"new">>
  /\ moChildRets = <<>>
  /\ moCalls = [x \in Items |-> 0]

\* No MaxOfRateLimiter: the state of these variables in the other
\* specifications.
IdleMaxOf ==
  /\ moLimiters = <<>>
  /\ moFailures = <<>>
  /\ moRet = 0
  /\ moLast = <<"new">>
  /\ moChildRets = <<>>
  /\ moCalls = [x \in Items |-> 0]

RECURSIVE MaxOfFold(_, _)
\* The loops of MaxOfRateLimiter.When and NumRequeues: ret starts at 0 and
\* is replaced by every curr that is greater.
MaxOfFold(ret, currs) ==
  IF currs = <<>>
    THEN ret
    ELSE MaxOfFold(IF Head(currs) > ret THEN Head(currs) ELSE ret, Tail(currs))

\* curr := limiter.When(item) of every child in turn: the lists of values
\* the children can return in the current state.
ChildResults(item) ==
  {currs \in [DOMAIN moLimiters ->
                UNION {WhenResults(moLimiters[i], moFailures[i], item) :
                         i \in DOMAIN moLimiters}] :
     \A i \in DOMAIN moLimiters :
       currs[i] \in WhenResults(moLimiters[i], moFailures[i], item)}

\* MaxOfRateLimiter.When
MaxOfWhen(item) ==
  /\ moCalls[item] < MaxCalls
  /\ moLast' = <<"When", item>>
  /\ \E currs \in ChildResults(item) :
       /\ moChildRets' = currs
       /\ moRet' = MaxOfFold(0, currs)
  /\ moFailures' = [i \in DOMAIN moLimiters |->
                      FailuresAfterWhen(moFailures[i], item)]
  /\ moCalls' = [moCalls EXCEPT ![item] = @ + 1]
  /\ UNCHANGED moLimiters

\* MaxOfRateLimiter.NumRequeues
MaxOfNumRequeues(item) ==
  MaxOfFold(0, [i \in DOMAIN moLimiters |-> FailuresOf(moFailures[i], item)])

\* MaxOfRateLimiter.Forget
MaxOfForget(item) ==
  /\ moLast' = <<"Forget", item>>
  /\ moFailures' = [i \in DOMAIN moLimiters |->
                      FailuresAfterForget(moFailures[i], item)]
  /\ moCalls' = [moCalls EXCEPT ![item] = 0]
  /\ UNCHANGED <<moLimiters, moRet, moChildRets>>


\* ------------------------------------------------------------------------
\* Rate-limiting queue (util/workqueue/rate_limiting_queue.go) over the
\* delaying queue
\* ------------------------------------------------------------------------

\* NewDelayingQueue: nothing is waiting.
IdleDelaying ==
  /\ waitingForAdd = {}
  /\ afterLast = <<>>

\* DelayingInterface.AddAfter(item, duration): the item becomes eligible
\* after the duration.  Time is not modelled: the item waits until the
\* delaying queue releases it.
AddAfter(item, duration) ==
  /\ waitingForAdd' = waitingForAdd \cup {item}
  /\ afterLast' = <<item, duration>>

\* The delaying queue's worker releases an item whose time has come: it adds
\* it to the queue.
WaitingLoopAdd(item) ==
  /\ item \in waitingForAdd
  /\ waitingForAdd' = waitingForAdd \ {item}
  /\ Add(item)
  /\ UNCHANGED afterLast

\* The limiters the rate-limiting queue is run with, and the worker that
\* drains it.
RLQLimiters ==
  {[kind |-> "exp", baseDelay |-> 16, maxDelay |-> 40],
   [kind |-> "fastslow", fastDelay |-> 5, slowDelay |-> 50, maxFastAttempts |-> 1]}

RLQWorkers == {1}

\* The items the rate-limiting queue is run with.
RLQItems == {1, 2}

\* NewRateLimitingQueue(rateLimiter): a new delaying queue and the limiter.
InitRLQ ==
  /\ InitRL
  /\ limiter \in RLQLimiters
  /\ InitWQ
  /\ IdleDelaying

\* The duration AddRateLimited hands to AddAfter, line 61: the value the
\* limiter's When returned.
AfterDelay_zero(ret) == 0

AfterDelay(ret) == ret

\* rateLimitingType.AddRateLimited
AddRateLimited(item) ==
  /\ When(item)
  /\ AddAfter(item, AfterDelay(rlRet'))
  /\ UNCHANGED wqVars

\* rateLimitingType.NumRequeues
RLQNumRequeues(item) == NumRequeues(item)

\* rateLimitingType.Forget
RLQForget_andDone(item) ==
  /\ Forget(item)
  /\ processing' = processing \ {item}
  /\ UNCHANGED <<queue, dirty, shuttingDown, waitPc, held, gotShutdown,
                 lastCall, firstAdds, firstGets, atShutDown, getsSince>>
  /\ UNCHANGED dqVars

RLQForget(item) ==
  /\ Forget(item)
  /\ UNCHANGED <<wqVars, dqVars>>


\* ------------------------------------------------------------------------
\* tools/cache/thread_safe_store.go
\*
\* Keys are strings and objects opaque non-nil values in the code; the model
\* numbers them.  An index function maps an object to a list of values.
\* ------------------------------------------------------------------------

StoreKeys == 1..NumKeys
Objs == 1..NumObjs

\* The index functions the model is run with: "parity" yields one value,
\* "near" yields no value for object 1 and otherwise several values, one of
\* them twice, which overlap between neighbouring objects.
IndexNames == {"parity", "near"}

IndexValues(name, obj) ==
  IF name = "version" THEN <<obj.rv>>
  ELSE IF name = "parity" THEN <<obj % 2>>
  ELSE IF obj = 1 THEN <<>> ELSE <<obj, obj + 1, obj>>

MapPut(m, k, v) == [x \in DOMAIN m \cup {k} |-> IF x = k THEN v ELSE m[x]]

MapDel(m, k) == [x \in DOMAIN m \ {k} |-> m[x]]

\* A set of keys as a sequence in ascending order.
RECURSIVE InOrder(_)
InOrder(ks) ==
  IF ks = {} THEN <<>>
  ELSE LET k == CHOOSE x \in ks : \A y \in ks : x <= y
       IN <<k>> \o InOrder(ks \ {k})

\* NewThreadSafeStore(indexers, Indices{}): no item, empty indices.
InitStore ==
  /\ items = EmptyMap
  /\ indexers \in SUBSET IndexNames
  /\ indices = EmptyMap
  /\ storeLocked = FALSE
  /\ replaceTodo = {}
  /\ lastStore = <<"new">>

\* No store: the state of these variables in the other specifications.
IdleStore ==
  /\ items = EmptyMap
  /\ indexers = {}
  /\ indices = EmptyMap
  /\ storeLocked = FALSE
  /\ replaceTodo = {}
  /\ lastStore = <<"new">>

\* deleteFromIndices, lines 369-381, for one index value: the key leaves the
\* value's set, and a set that becomes empty is removed from the index.
DeleteValue_keepEmpty(index, value, key) ==
  IF value \in DOMAIN index
    THEN [index EXCEPT ![value] = @ \ {key}]
    ELSE index

DeleteValue(index, value, key) ==
  IF value \in DOMAIN index
    THEN LET set == index[value] \ {key}
         IN IF set = {} THEN MapDel(index, value)
                        ELSE [index EXCEPT ![value] = set]
    ELSE index

RECURSIVE DeleteValues(_, _, _)
\* deleteFromIndices, the loop of line 369 over the object's index values.
DeleteValues(index, values, key) ==
  IF values = <<>> THEN index
  ELSE DeleteValues(DeleteValue(index, Head(values), key), Tail(values), key)

\* threadSafeMap.deleteFromIndices: for every indexer whose index exists.
DeleteFromIndices(idx, obj, key) ==
  [n \in DOMAIN idx |->
     IF n \in indexers THEN DeleteValues(idx[n], IndexValues(n, obj), key)
                       ELSE idx[n]]

\* updateIndices, lines 336-347, for one index value.
AddValue(index, value, key) ==
  IF value \in DOMAIN index
    THEN [index EXCEPT ![value] = @ \cup {key}]
    ELSE MapPut(index, value, {key})

RECURSIVE AddValues(_, _, _)
\* updateIndices, the loop of line 336 over the object's index values.
AddValues(index, values, key) ==
  IF values = <<>> THEN index
  ELSE AddValues(AddValue(index, Head(values), key), Tail(values), key)

\* updateIndices, lines 322-348: every indexer's index is created when it
\* does not exist and receives the key under each value of the new object.
AddToIndices(idx, newObj, key) ==
  [n \in DOMAIN idx \cup indexers |->
     IF n \in indexers
       THEN AddValues(IF n \in DOMAIN idx THEN idx[n] ELSE EmptyMap,
                      IndexValues(n, newObj), key)
       ELSE idx[n]]

\* threadSafeMap.updateIndices.  old is the set holding the old object, empty
\* when there is none (oldObj == nil).
UpdateIndices_keepOld(idx, old, newObj, key) == AddToIndices(idx, newObj, key)

UpdateIndices(idx, old, newObj, key) ==
  LET removed == IF old # {}
                   THEN DeleteFromIndices(idx, CHOOSE o \in old : TRUE, key)
                   ELSE idx
  IN AddToIndices(removed, newObj, key)

\* c.items[key]: the object the key holds, as a set (empty when absent).
OldObject(key) == IF key \in DOMAIN items THEN {items[key]} ELSE {}

\* c.lock.Lock() and c.lock.RLock() return: no Replace holds the lock.  The
\* other calls, shorter, are single steps of the model.
LockFree == ~storeLocked

\* threadSafeMap.Add
StoreAdd(key, obj) ==
  /\ LockFree
  /\ lastStore' = <<"Add", key, obj, OldObject(key)>>
  /\ items' = MapPut(items, key, obj)
  /\ indices' = UpdateIndices(indices, OldObject(key), obj, key)
  /\ UNCHANGED <<indexers, storeLocked, replaceTodo>>

\* threadSafeMap.Update
StoreUpdate(key, obj) ==
  /\ LockFree
  /\ lastStore' = <<"Update", key, obj, OldObject(key)>>
  /\ items' = MapPut(items, key, obj)
  /\ indices' = UpdateIndices(indices, OldObject(key), obj, key)
  /\ UNCHANGED <<indexers, storeLocked, replaceTodo>>

\* threadSafeMap.Delete
StoreDelete(key) ==
  /\ LockFree
  /\ lastStore' = <<"Delete", key, OldObject(key)>>
  /\ IF key \in DOMAIN items
       THEN /\ indices' = DeleteFromIndices(indices, items[key], key)
            /\ items' = MapDel(items, key)
       ELSE UNCHANGED <<items, indices>>
  /\ UNCHANGED <<indexers, storeLocked, replaceTodo>>

\* c.indices = Indices{}, line 160.
ReplaceStart_keepIndices(idx) == idx

ReplaceStart(idx) == EmptyMap

\* The maps a caller can hand to Replace.
ItemMaps == UNION {[ks -> Objs] : ks \in SUBSET StoreKeys}

\* threadSafeMap.Replace, lines 153-160: the lock is taken, the items are
\* overwritten and the indices emptied.
StoreReplace(m) ==
  /\ LockFree
  /\ storeLocked' = TRUE
  /\ lastStore' = <<"Replace", m>>
  /\ items' = m
  /\ indices' = ReplaceStart(indices)
  /\ replaceTodo' = DOMAIN m
  /\ UNCHANGED indexers

\* threadSafeMap.Replace, lines 161-163: one turn of the loop over the new
\* items, in the order the map iteration yields them.
ReplaceIndex(key) ==
  /\ storeLocked
  /\ key \in replaceTodo
  /\ indices' = UpdateIndices(indices, {}, items[key], key)
  /\ replaceTodo' = replaceTodo \ {key}
  /\ UNCHANGED <<items, indexers, storeLocked, lastStore>>

\* threadSafeMap.Replace returns: the deferred c.lock.Unlock().
ReplaceReturn ==
  /\ storeLocked
  /\ replaceTodo = {}
  /\ storeLocked' = FALSE
  /\ UNCHANGED <<items, indexers, indices, replaceTodo, lastStore>>

\* The checks of AddIndexers, lines 291-301: the store holds an item, or a
\* new name is a registered one.
AddIndexersFails_onlyConflict(new) == new \cap indexers # {}

AddIndexersFails(new) == DOMAIN items # {} \/ new \cap indexers # {}

\* threadSafeMap.AddIndexers; new is the set of names of newIndexers, the
\* function of a name being IndexValues.  The history records the error.
AddIndexers(new) ==
  /\ LockFree
  /\ lastStore' = <<"AddIndexers", new, AddIndexersFails(new)>>
  /\ indexers' = IF AddIndexersFails(new) THEN indexers
                                          ELSE indexers \cup new
  /\ UNCHANGED <<items, indices, storeLocked, replaceTodo>>

\* threadSafeMap.Get
StoreGet(key) == OldObject(key)

\* threadSafeMap.ListKeys
StoreListKeys == DOMAIN items

\* c.indices[indexName]: the index of a name, the nil map read as empty.
IndexOf(name) == IF name \in DOMAIN indices THEN indices[name] ELSE EmptyMap

\* index[indexedValue]: the key set of a value, the nil set read as empty.
KeySetOf(index, value) == IF value \in DOMAIN index THEN index[value] ELSE {}

IndexKeySet_first(index, values) ==
  IF values = <<>> THEN {} ELSE KeySetOf(index, values[1])

\* Index, lines 191-207: the store keys of the values of the object; with
\* one value its set, otherwise the keys of every value inserted into a
\* fresh set.
IndexKeySet(index, values) ==
  IF Len(values) = 1
    THEN KeySetOf(index, values[1])
    ELSE UNION {KeySetOf(index, values[i]) : i \in DOMAIN values}

\* The orders in which a range over a key set can yield its keys.
Orders(ks) ==
  {order \in [1..Cardinality(ks) -> ks] :
     \A i \in DOMAIN order, j \in DOMAIN order : order[i] = order[j] => i = j}

\* c.items[storeKey] appended for every key of the set, lines 211-214 and
\* 238-241, in the order the range yields the keys; a key the store does
\* not hold contributes nil.
ObjectsOf(order) == [i \in DOMAIN order |-> OldObject(order[i])]

\* threadSafeMap.Index.  The history records the call, whether it returned
\* an error, and the result: no list (nil) with the error, else the list.
Index(name, obj) ==
  /\ LockFree
  /\ IF name \notin indexers
       THEN lastStore' = <<"Index", name, obj, TRUE, {}>>
       ELSE \E order \in Orders(IndexKeySet(IndexOf(name), IndexValues(name, obj))) :
              lastStore' = <<"Index", name, obj, FALSE, {ObjectsOf(order)}>>
  /\ UNCHANGED <<items, indexers, indices, storeLocked, replaceTodo>>

\* threadSafeMap.ByIndex
ByIndex(name, value) ==
  /\ LockFree
  /\ IF name \notin indexers
       THEN lastStore' = <<"ByIndex", name, value, TRUE, {}>>
       ELSE \E order \in Orders(KeySetOf(IndexOf(name), value)) :
              lastStore' = <<"ByIndex", name, value, FALSE, {ObjectsOf(order)}>>
  /\ UNCHANGED <<items, indexers, indices, storeLocked, replaceTodo>>

\* threadSafeMap.IndexKeys: set.List() is the sorted list of the keys.
IndexKeys(name, value) ==
  /\ LockFree
  /\ lastStore' =
       IF name \notin indexers
         THEN <<"IndexKeys", name, value, TRUE, {}>>
         ELSE <<"IndexKeys", name, value, FALSE,
                {InOrder(KeySetOf(IndexOf(name), value))}>>
  /\ UNCHANGED <<items, indexers, indices, storeLocked, replaceTodo>>

\* The index values the lookups are asked for.
LookupValues == 0..(NumObjs + 1)

\* ------------------------------------------------------------------------
\* tools/cache: key functions, newInformer's Process, the filtering handler
\*
\* An API object is a record of its name and resource version; NoMetaObj is
\* an object without object metadata; DeletedFinalStateUnknown is the
\* envelope a Deleted delta carries when the final state was missed.
\* ------------------------------------------------------------------------

InfObjs == [name : StoreKeys, rv : 1..NumVersions]

NoMetaObj == [nometa |-> TRUE]

\* DeletedFinalStateUnknown{Key, Obj}; Obj is a set, empty for nil.
DeletedFinalStateUnknowns ==
  UNION {{[Key |-> k, Obj |-> o] :
            o \in {{}} \cup {{x} : x \in {y \in InfObjs : y.name = k}}} :
         k \in StoreKeys}

\* MetaNamespaceKeyFunc: the key of an object with metadata, as a set; the
\* empty set stands for the error return.
MetaNamespaceKeyFunc(obj) == IF "name" \in DOMAIN obj THEN {obj.name} ELSE {}

DeletionHandlingMetaNamespaceKeyFunc_noEnvelope(obj) ==
  MetaNamespaceKeyFunc(obj)

\* DeletionHandlingMetaNamespaceKeyFunc
DeletionHandlingMetaNamespaceKeyFunc(obj) ==
  IF "Key" \in DOMAIN obj THEN {obj.Key} ELSE MetaNamespaceKeyFunc(obj)

\* clientState's keyFunc: NewInformer builds the store with
\* DeletionHandlingMetaNamespaceKeyFunc.
KeyFunc(obj) == DeletionHandlingMetaNamespaceKeyFunc(obj)

\* The key in a key function's result that is not an error.
KeyOf(keys) == CHOOSE k \in keys : TRUE

\* cache.Replace (tools/cache/store.go): the keyed store over the
\* thread-safe map.

\* The lists a caller can hand to cache.Replace: objects with metadata and
\* the object the key function fails for.
ReplaceLists ==
  UNION {[1..n -> InfObjs \cup {NoMetaObj}] : n \in 0..MaxList}

RECURSIVE ListItems(_, _)
\* cache.Replace, lines 250-256, when no key fails: items[key] = item for
\* every item of the list in turn.
ListItems(m, list) ==
  IF list = <<>>
    THEN m
    ELSE ListItems(MapPut(m, KeyOf(MetaNamespaceKeyFunc(Head(list))), Head(list)),
                   Tail(list))

\* The positions of the list whose key cannot be computed.
KeyErrors(list) ==
  {i \in DOMAIN list : MetaNamespaceKeyFunc(list[i]) = {}}

\* The items of a list whose keys can be computed.
Keyable(list) ==
  SelectSeq(list, LAMBDA o : MetaNamespaceKeyFunc(o) # {})

\* cache.Replace, line 253: the return inside the loop comes before
\* c.cacheStorage.Replace, so the thread-safe map keeps what it held.
ItemsOnKeyError_keyable(had, list) == ListItems(EmptyMap, Keyable(list))

ItemsOnKeyError(had, list) == had

\* cache.Replace of a store built by NewStore(MetaNamespaceKeyFunc): the
\* loop returns KeyError{item, err} at the first item whose key fails,
\* before c.cacheStorage.Replace is called.
CacheReplace(list) ==
  IF KeyErrors(list) # {}
    THEN /\ LockFree
         /\ lastStore' = <<"ReplaceKeyError", list,
                           list[CHOOSE i \in KeyErrors(list) :
                                  \A j \in KeyErrors(list) : i <= j]>>
         /\ items' = ItemsOnKeyError(items, list)
         /\ UNCHANGED <<indexers, indices, storeLocked, replaceTodo>>
    ELSE StoreReplace(ListItems(EmptyMap, list))

\* cache.Add, cache.Update, cache.Delete, lines 161-164, 171-174, 181-184:
\* the key function fails and the call returns KeyError{obj, err} before it
\* reaches the thread-safe map, whose lock it does not take.
KeyErrorReturn(op, obj) ==
  /\ lastStore' = <<"KeyError", op, obj>>
  /\ UNCHANGED <<items, indexers, indices, storeLocked, replaceTodo>>

\* cache.Add
CacheAdd(obj) ==
  IF MetaNamespaceKeyFunc(obj) = {}
    THEN KeyErrorReturn("Add", obj)
    ELSE StoreAdd(KeyOf(MetaNamespaceKeyFunc(obj)), obj)

\* cache.Update
CacheUpdate(obj) ==
  IF MetaNamespaceKeyFunc(obj) = {}
    THEN KeyErrorReturn("Update", obj)
    ELSE StoreUpdate(KeyOf(MetaNamespaceKeyFunc(obj)), obj)

\* cache.Delete
CacheDelete(obj) ==
  IF MetaNamespaceKeyFunc(obj) = {}
    THEN KeyErrorReturn("Delete", obj)
    ELSE StoreDelete(KeyOf(MetaNamespaceKeyFunc(obj)))

\* The index function the keyed store of the model can be built with: the
\* resource version of the object.
CacheIndexNames == {"version"}

\* NewStore(keyFunc) and NewIndexer(keyFunc, indexers): no item, empty
\* indices, no indexer or the given ones.
InitCache ==
  /\ items = EmptyMap
  /\ indexers \in SUBSET CacheIndexNames
  /\ indices = EmptyMap
  /\ storeLocked = FALSE
  /\ replaceTodo = {}
  /\ lastStore = <<"new">>


NonDeleteTypes == {"Sync", "Replaced", "Added", "Updated"}

\* The deltas a Deltas of key k can hold.
DeltaSet(k) ==
  LET objs == {o \in InfObjs : o.name = k} \cup {NoMetaObj}
      envs == {e \in DeletedFinalStateUnknowns : e.Key = k}
  IN [Type : NonDeleteTypes, Object : objs]
       \cup [Type : {"Deleted"}, Object : objs \cup envs]

\* NewInformer: h has seen nothing, the store is NewStore(keyFunc).
InitInformer ==
  /\ dkey = {}
  /\ dn = 0
  /\ di = 0
  /\ delta = <<>>
  /\ infPc = "idle"
  /\ infOld = {}
  /\ procErr = "none"
  /\ lastNotify = <<>>
  /\ procCalls = <<>>
  /\ handlerView = [k \in StoreKeys |-> {}]

\* processLoop: Queue.Pop(PopProcessFunc(c.config.Process)) hands to Process
\* the Deltas of key k, n deltas ordered oldest first.  The model draws each
\* delta when the loop of line 430 reaches it.
Pop(k, n) ==
  /\ infPc = "idle"
  /\ dkey' = {k}
  /\ dn' = n
  /\ di' = 1
  /\ delta' = <<>>
  /\ procErr' = "none"
  /\ infPc' = "store"
  /\ infOld' = {}
  /\ procCalls' = <<>>
  /\ UNCHANGED <<lastNotify, handlerView, storeVars>>

\* Process returns err: the loop over the deltas ends.
ProcessReturns(err) ==
  /\ procErr' = err
  /\ dkey' = {}
  /\ dn' = 0
  /\ di' = 0
  /\ delta' = <<>>
  /\ infPc' = "idle"
  /\ infOld' = {}

\* clientState.Get(d.Object): (old, exists, err) as a set, empty when the key
\* function fails or the key is not stored.
StoreLookup(obj) ==
  IF KeyFunc(obj) = {} THEN {}
  ELSE StoreGet(KeyOf(KeyFunc(obj)))

\* err == nil && exists, line 433
TakesUpdateBranch_never(got) == FALSE

TakesUpdateBranch(got) == got # {}

\* Process, lines 431-448: the store call made for d, the delta at index di.
StoreCall(d) ==
  /\ LET key == KeyFunc(d.Object)
         got == StoreLookup(d.Object)
     IN IF key = {}
          THEN \* cache.Add / cache.Delete return a KeyError
               /\ ProcessReturns("KeyError")
               /\ procCalls' = Append(procCalls, <<"error", di, d>>)
               /\ UNCHANGED <<lastNotify, handlerView, storeVars>>
          ELSE LET k == KeyOf(key)
               IN /\ IF d.Type \in NonDeleteTypes
                       THEN IF TakesUpdateBranch(got)
                              THEN StoreUpdate(k, d.Object) /\ infOld' = got
                              ELSE StoreAdd(k, d.Object) /\ infOld' = {}
                       ELSE StoreDelete(k) /\ infOld' = {}
                  /\ delta' = <<d>>
                  /\ procCalls' = Append(procCalls, <<"store", di, d>>)
                  /\ infPc' = "notify"
                  /\ UNCHANGED <<dkey, dn, di, procErr, lastNotify, handlerView>>

\* Process, line 430: the loop reaches index di, the delta it finds there is
\* one the Deltas of key dkey can hold.
ProcessStore ==
  /\ infPc = "store"
  /\ \E d \in DeltaSet(KeyOf(dkey)) : StoreCall(d)

\* What the handler has seen last for each key, after the call: the key is
\* the one of the object the call ends with.
Seen(view, call) ==
  [view EXCEPT ![KeyOf(KeyFunc(call[Len(call)]))] =
     IF call[1] = "OnDelete" THEN {} ELSE {call[Len(call)]}]

Notification_stale(d, o) ==
  IF d.Type \in NonDeleteTypes
    THEN IF o # {} THEN <<"OnUpdate", CHOOSE x \in o : TRUE, CHOOSE x \in o : TRUE>>
                   ELSE <<"OnAdd", d.Object>>
    ELSE <<"OnDelete", d.Object>>

\* The handler call that follows the store call of delta d.
Notification(d, o) ==
  IF d.Type \in NonDeleteTypes
    THEN IF o # {} THEN <<"OnUpdate", CHOOSE x \in o : TRUE, d.Object>>
                   ELSE <<"OnAdd", d.Object>>
    ELSE <<"OnDelete", d.Object>>

NextDelta_skip(i) == i + 2

\* Process, line 430: range over the Deltas goes to the next index.
NextDelta(i) == i + 1

\* Process, lines 437, 442, 449 and 452: the handler call made for the
\* delta at index di, then the next delta or return nil.
ProcessNotify ==
  /\ infPc = "notify"
  /\ lastNotify' = Notification(delta[1], infOld)
  /\ handlerView' = Seen(handlerView, Notification(delta[1], infOld))
  /\ procCalls' = Append(procCalls, <<"notify", di, delta[1]>>)
  /\ IF di < dn
       THEN /\ di' = NextDelta(di)
            /\ delta' = <<>>
            /\ infPc' = "store"
            /\ infOld' = {}
            /\ UNCHANGED <<dkey, dn, procErr>>
       ELSE ProcessReturns("nil")
  /\ UNCHANGED storeVars

\* No informer: the state of these variables in the other specifications.
IdleInformer == InitInformer

\* The objects handed to the filtering handler.
FilterObjs == InfObjs

InitFilter ==
  /\ filterPass \in SUBSET FilterObjs
  /\ upstream = <<>>
  /\ forwarded = <<>>
  /\ nestedHeld = FALSE
  /\ streamObj = {}

\* No filtering handler: the state of these variables elsewhere.
IdleFilter ==
  /\ filterPass = {}
  /\ upstream = <<>>
  /\ forwarded = <<>>
  /\ nestedHeld = FALSE
  /\ streamObj = {}

\* r.FilterFunc(obj)
FilterFunc(obj) == obj \in filterPass

\* What the nested Handler holds after the calls made on it.
HeldAfter(had, made) ==
  IF made = <<>> THEN had
  ELSE IF made[Len(made)][1] = "OnAdd" THEN TRUE
  ELSE IF made[Len(made)][1] = "OnDelete" THEN FALSE
  ELSE had

\* FilteringResourceEventHandler.OnAdd
FilterOnAdd(obj) ==
  /\ upstream' = <<"OnAdd", obj>>
  /\ forwarded' = IF ~FilterFunc(obj) THEN <<>> ELSE << <<"OnAdd", obj>> >>
  /\ nestedHeld' = HeldAfter(nestedHeld, forwarded')
  /\ UNCHANGED filterPass

\* The switch of FilteringResourceEventHandler.OnUpdate, lines 306-315.
UpdateSwitch_swapped(newer, older, oldObj, newObj) ==
  IF newer /\ older THEN << <<"OnUpdate", oldObj, newObj>> >>
  ELSE IF newer /\ ~older THEN << <<"OnDelete", oldObj>> >>
  ELSE IF ~newer /\ older THEN << <<"OnAdd", newObj>> >>
  ELSE <<>>

UpdateSwitch(newer, older, oldObj, newObj) ==
  IF newer /\ older THEN << <<"OnUpdate", oldObj, newObj>> >>
  ELSE IF newer /\ ~older THEN << <<"OnAdd", newObj>> >>
  ELSE IF ~newer /\ older THEN << <<"OnDelete", oldObj>> >>
  ELSE <<>>

\* FilteringResourceEventHandler.OnUpdate
FilterOnUpdate(oldObj, newObj) ==
  /\ upstream' = <<"OnUpdate", oldObj, newObj>>
  /\ forwarded' =
       UpdateSwitch(FilterFunc(newObj), FilterFunc(oldObj), oldObj, newObj)
  /\ nestedHeld' = HeldAfter(nestedHeld, forwarded')
  /\ UNCHANGED filterPass

\* FilteringResourceEventHandler.OnDelete
FilterOnDelete(obj) ==
  /\ upstream' = <<"OnDelete", obj>>
  /\ forwarded' = IF ~FilterFunc(obj) THEN <<>> ELSE << <<"OnDelete", obj>> >>
  /\ nestedHeld' = HeldAfter(nestedHeld, forwarded')
  /\ UNCHANGED filterPass

\* A caller that reports one object in a well-formed way: OnAdd when it has
\* reported no object, OnUpdate from the object it reported last to a
\* version of the same object, OnDelete of the object it reported last.
StreamAdd(obj) ==
  /\ streamObj = {}
  /\ FilterOnAdd(obj)
  /\ streamObj' = {obj}

StreamUpdate(newObj) ==
  /\ \E oldObj \in streamObj :
       /\ newObj.name = oldObj.name
       /\ FilterOnUpdate(oldObj, newObj)
  /\ streamObj' = {newObj}

StreamDelete ==
  /\ \E obj \in streamObj : FilterOnDelete(obj)
  /\ streamObj' = {}

\* ------------------------------------------------------------------------
\* Keys as strings (tools/cache/store.go): MetaNamespaceKeyFunc and
\* SplitMetaNamespaceKey.  A string is a sequence of characters.
\* ------------------------------------------------------------------------

Strings(chars, n) == UNION {[1..l -> chars] : l \in 0..n}

\* Namespaces and names without '/', and keys of any shape.
Names == Strings({"a", "b"}, MaxLen)
GivenKeys == Strings({"a", "/"}, MaxLen + 1)

\* MetaNamespaceKeyFunc, lines 118-121, for an object with metadata.
MetaNamespaceKey_noSeparator(namespace, name) == namespace \o name

MetaNamespaceKey(namespace, name) ==
  IF Len(namespace) > 0 THEN namespace \o <<"/">> \o name ELSE name

RECURSIVE StringsSplit(_)
\* strings.Split(key, "/"), line 130: the substrings between the separators.
StringsSplit(str) ==
  IF \A i \in DOMAIN str : str[i] # "/"
    THEN <<str>>
    ELSE LET i == CHOOSE j \in DOMAIN str :
                    str[j] = "/" /\ \A h \in 1..(j - 1) : str[h] # "/"
         IN <<SubSeq(str, 1, i - 1)>> \o StringsSplit(SubSeq(str, i + 1, Len(str)))

\* SplitMetaNamespaceKey
SplitMetaNamespaceKey(key) ==
  LET parts == StringsSplit(key)
  IN IF Len(parts) = 1
       THEN [namespace |-> <<>>, name |-> parts[1], err |-> FALSE]
       ELSE IF Len(parts) = 2
         THEN [namespace |-> parts[1], name |-> parts[2], err |-> FALSE]
         ELSE [namespace |-> <<>>, name |-> <<>>, err |-> TRUE]

InitKey ==
  /\ keyNamespace \in Names
  /\ keyName \in Names
  /\ keyGiven \in GivenKeys
  /\ keyStr = <<>>
  /\ keySplit = <<>>
  /\ keyPc = "new"

\* No key at hand: the state of these variables in the other specifications.
IdleKey ==
  /\ keyNamespace = <<>>
  /\ keyName = <<>>
  /\ keyGiven = <<>>
  /\ keyStr = <<>>
  /\ keySplit = <<>>
  /\ keyPc = "new"

\* key, err := MetaNamespaceKeyFunc(obj)
KeyBuild ==
  /\ keyPc = "new"
  /\ keyStr' = MetaNamespaceKey(keyNamespace, keyName)
  /\ keyPc' = "built"
  /\ UNCHANGED <<keyNamespace, keyName, keyGiven, keySplit>>

\* The caller has a key from elsewhere.
KeyTake ==
  /\ keyPc = "new"
  /\ keyStr' = keyGiven
  /\ keyPc' = "given"
  /\ UNCHANGED <<keyNamespace, keyName, keyGiven, keySplit>>

\* namespace, name, err := SplitMetaNamespaceKey(key)
KeySplit ==
  /\ keyPc \in {"built", "given"}
  /\ keySplit' = SplitMetaNamespaceKey(keyStr)
  /\ keyPc' = IF keyPc = "built" THEN "builtSplit" ELSE "givenSplit"
  /\ UNCHANGED <<keyNamespace, keyName, keyGiven, keyStr>>

\* ------------------------------------------------------------------------
\* tools/cache: controller.Run and controller.processLoop
\*
\* Config.Queue and the Reflector are not part of the source at hand: Pop,
\* Close, AddIfNotPresent and the Reflector's Run follow the specification
\* document.  wait.Until and wait.Group are the apimachinery helpers.
\* ------------------------------------------------------------------------

InitController ==
  /\ retryOnError \in BOOLEAN
  /\ stopCh = FALSE
  /\ queueClosed = FALSE
  /\ queued = {}
  /\ closerPc = "wait"
  /\ reflectorPc = "running"
  /\ runPc = "until"
  /\ popObj = {}
  /\ popErr = "nil"
  /\ requeued = <<>>
  /\ errCount = 0

\* No controller: the state of these variables elsewhere.
IdleController ==
  /\ retryOnError = FALSE
  /\ stopCh = FALSE
  /\ queueClosed = FALSE
  /\ queued = {}
  /\ closerPc = "wait"
  /\ reflectorPc = "running"
  /\ runPc = "until"
  /\ popObj = {}
  /\ popErr = "nil"
  /\ requeued = <<>>
  /\ errCount = 0

\* The owner of the controller closes stopCh.
Stop ==
  /\ ~stopCh
  /\ stopCh' = TRUE
  /\ UNCHANGED <<retryOnError, queueClosed, queued, closerPc, reflectorPc,
                 runPc, popObj, popErr, requeued, errCount>>

\* Run, lines 147-150: <-stopCh; c.config.Queue.Close()
CloserRun_noClose ==
  /\ closerPc = "wait"
  /\ stopCh
  /\ closerPc' = "done"
  /\ UNCHANGED <<retryOnError, stopCh, queueClosed, queued, reflectorPc, runPc,
                 popObj, popErr, requeued, errCount>>

CloserRun ==
  /\ closerPc = "wait"
  /\ stopCh
  /\ queueClosed' = TRUE
  /\ closerPc' = "done"
  /\ UNCHANGED <<retryOnError, stopCh, queued, reflectorPc, runPc, popObj,
                 popErr, requeued, errCount>>

\* The Reflector feeds the Queue; an Add on a closed Queue is ignored.
ReflectorAdd(k) ==
  /\ reflectorPc = "running"
  /\ queued' = IF queueClosed THEN queued ELSE queued \cup {k}
  /\ UNCHANGED <<retryOnError, stopCh, queueClosed, closerPc, reflectorPc,
                 runPc, popObj, popErr, requeued, errCount>>

\* wg.StartWithChannel(stopCh, r.Run): r.Run returns once stopCh is closed.
ReflectorExit ==
  /\ reflectorPc = "running"
  /\ stopCh
  /\ reflectorPc' = "done"
  /\ UNCHANGED <<retryOnError, stopCh, queueClosed, queued, closerPc, runPc,
                 popObj, popErr, requeued, errCount>>

\* wait.Until(c.processLoop, time.Second, stopCh): before each call of
\* processLoop it returns if stopCh is closed.
UntilCheck ==
  /\ runPc = "until"
  /\ runPc' = IF stopCh THEN "wgwait" ELSE "pop"
  /\ UNCHANGED <<retryOnError, stopCh, queueClosed, queued, closerPc,
                 reflectorPc, popObj, popErr, requeued, errCount>>

\* Queue.Pop(PopProcessFunc(c.config.Process)) returns ErrFIFOClosed: the
\* Queue is closed.  The document leaves open whether a closed Queue that
\* still holds keys hands them out first; the model allows both.
PopClosed ==
  /\ runPc = "pop"
  /\ queueClosed
  /\ popObj' = {}
  /\ popErr' = "ErrFIFOClosed"
  /\ requeued' = <<>>
  /\ runPc' = "handle"
  /\ UNCHANGED <<retryOnError, stopCh, queueClosed, queued, closerPc,
                 reflectorPc, errCount>>

\* Queue.Pop(PopProcessFunc(c.config.Process)) removes key k and returns its
\* Deltas with the error of Process.
PopItem(k, err) ==
  /\ runPc = "pop"
  /\ k \in queued
  /\ err # "nil" => errCount < MaxErrors
  /\ queued' = queued \ {k}
  /\ popObj' = {k}
  /\ popErr' = err
  /\ errCount' = IF err # "nil" THEN errCount + 1 ELSE errCount
  /\ requeued' = <<>>
  /\ runPc' = "handle"
  /\ UNCHANGED <<retryOnError, stopCh, queueClosed, closerPc, reflectorPc>>

\* processLoop, line 219, reached when err is neither nil nor ErrFIFOClosed.
PutsBack_always(retry) == TRUE

PutsBack(retry) == retry

\* processLoop, lines 213-223: what follows the return of Pop.
Handle ==
  /\ runPc = "handle"
  /\ IF popErr = "nil"
       THEN runPc' = "pop" /\ UNCHANGED <<queued, requeued>>
       ELSE IF popErr = "ErrFIFOClosed"
         THEN runPc' = "sleep" /\ UNCHANGED <<queued, requeued>>
         ELSE /\ runPc' = "pop"
              /\ IF PutsBack(retryOnError)
                   THEN \* c.config.Queue.AddIfNotPresent(obj)
                        /\ queued' = queued \cup popObj
                        /\ requeued' = <<popObj>>
                   ELSE UNCHANGED <<queued, requeued>>
  /\ UNCHANGED <<retryOnError, stopCh, queueClosed, closerPc, reflectorPc,
                 popObj, popErr, errCount>>

\* wait.Until after processLoop has returned: it returns if stopCh is
\* closed, or the period elapses and it loops.
UntilSleep ==
  /\ runPc = "sleep"
  /\ \/ stopCh /\ runPc' = "wgwait"
     \/ runPc' = "until"
  /\ UNCHANGED <<retryOnError, stopCh, queueClosed, queued, closerPc,
                 reflectorPc, popObj, popErr, requeued, errCount>>

\* wg.Wait() and the return of Run.
WgWait ==
  /\ runPc = "wgwait"
  /\ reflectorPc = "done"
  /\ runPc' = "returned"
  /\ UNCHANGED <<retryOnError, stopCh, queueClosed, queued, closerPc,
                 reflectorPc, popObj, popErr, requeued, errCount>>

\* ------------------------------------------------------------------------
\* The Delta FIFO under the controller's processLoop, wired as newInformer
\* wires it: known objects = the store, Replaced deltas for a Replace
\* ------------------------------------------------------------------------

\* The object the producers report for a key, and the object the store
\* holds for a key before the FIFO is used.
ReportedObj(k) == [name |-> k, rv |-> 1]
StoredObj(k) == [name |-> k, rv |-> NumVersions]

\* The keys the producers report.
FifoKeys == {1, 2}

\* The stores the informer can be handed.
KnownStores == UNION {{[k \in ks |-> StoredObj(k)]} : ks \in SUBSET FifoKeys}

\* The lists a Replace can be called with: every key at most once.
KeyLists ==
  {list \in UNION {[1..n -> FifoKeys] : n \in 0..Cardinality(FifoKeys)} :
     \A i \in DOMAIN list, j \in DOMAIN list : list[i] = list[j] => i = j}

\* NewDeltaFIFOWithOptions and the Config of newInformer.
InitFIFO ==
  /\ fifoItems = EmptyMap
  /\ fifoQueue = <<>>
  /\ populated = FALSE
  /\ initialPopulationCount = 0
  /\ knownObjects \in KnownStores
  /\ producerCalls = 0
  /\ accepted = [k \in StoreKeys |-> <<>>]
  /\ handed = [k \in StoreKeys |-> <<>>]
  /\ kept = [k \in StoreKeys |-> <<>>]
  /\ fifoPhase = "fresh"
  /\ firstReplace = <<>>

\* No Delta FIFO: the state of these variables in the other specifications.
IdleFIFO ==
  /\ fifoItems = EmptyMap
  /\ fifoQueue = <<>>
  /\ populated = FALSE
  /\ initialPopulationCount = 0
  /\ knownObjects = EmptyMap
  /\ producerCalls = 0
  /\ accepted = [k \in StoreKeys |-> <<>>]
  /\ handed = [k \in StoreKeys |-> <<>>]
  /\ kept = [k \in StoreKeys |-> <<>>]
  /\ fifoPhase = "fresh"
  /\ firstReplace = <<>>

\* Delta compression: after an append, two consecutive Deleted at the end
\* collapse to the second.
Dedup(deltas) ==
  LET n == Len(deltas)
  IN IF n >= 2 /\ deltas[n].Type = "Deleted" /\ deltas[n - 1].Type = "Deleted"
       THEN Append(SubSeq(deltas, 1, n - 2), deltas[n])
       ELSE deltas

RECURSIVE QueueAll(_, _)
\* Appends each of the pairs <<key, delta>> to its key's Deltas; a key that
\* was not queued goes to the end of the queue.
QueueAll(fifo, pairs) ==
  IF pairs = <<>>
    THEN fifo
    ELSE LET k == Head(pairs)[1]
             d == Head(pairs)[2]
             was == IF k \in DOMAIN fifo.items THEN fifo.items[k] ELSE <<>>
         IN QueueAll([items |-> MapPut(fifo.items, k, Dedup(Append(was, d))),
                      queue |-> IF k \in DOMAIN fifo.items
                                  THEN fifo.queue
                                  ELSE Append(fifo.queue, k)],
                     Tail(pairs))

RECURSIVE Accept(_, _)
\* History: the pairs are accepted.
Accept(acc, pairs) ==
  IF pairs = <<>>
    THEN acc
    ELSE Accept([acc EXCEPT ![Head(pairs)[1]] = Append(@, Head(pairs)[2])],
                Tail(pairs))

\* A producer's call that asks for the pairs to be queued; a closed FIFO
\* ignores it.
Produce(pairs) ==
  /\ producerCalls < MaxEvents
  /\ producerCalls' = producerCalls + 1
  /\ IF queueClosed
       THEN UNCHANGED <<fifoItems, fifoQueue, populated, accepted>>
       ELSE LET fifo == QueueAll([items |-> fifoItems, queue |-> fifoQueue], pairs)
            IN /\ fifoItems' = fifo.items
               /\ fifoQueue' = fifo.queue
               /\ populated' = TRUE
               /\ accepted' = Accept(accepted, pairs)
  /\ UNCHANGED <<knownObjects, handed, kept, ctlVars>>

\* Add(obj), Update(obj)
FifoAdd(k) ==
  /\ Produce(<< <<k, [Type |-> "Added", Object |-> ReportedObj(k)]>> >>)
  /\ fifoPhase' = "mixed"
  /\ UNCHANGED <<initialPopulationCount, firstReplace>>

FifoUpdate(k) ==
  /\ Produce(<< <<k, [Type |-> "Updated", Object |-> ReportedObj(k)]>> >>)
  /\ fifoPhase' = "mixed"
  /\ UNCHANGED <<initialPopulationCount, firstReplace>>

\* Delete(obj): dropped when the key is neither known nor queued.
FifoDelete(k) ==
  /\ Produce(IF k \notin DOMAIN knownObjects /\ k \notin DOMAIN fifoItems
               THEN <<>>
               ELSE << <<k, [Type |-> "Deleted", Object |-> ReportedObj(k)]>> >>)
  /\ fifoPhase' = "mixed"
  /\ UNCHANGED <<initialPopulationCount, firstReplace>>

\* The Deleted deltas a Replace(list) synthesizes: one for every known key
\* that is not in the list, carrying DeletedFinalStateUnknown with the known
\* object.
SynthesizedDeletes(list) ==
  LET gone == InOrder(DOMAIN knownObjects \ Range(list))
  IN [i \in DOMAIN gone |->
        <<gone[i], [Type |-> "Deleted",
                    Object |-> [Key |-> gone[i],
                                Obj |-> {knownObjects[gone[i]]}]]>>]

EmitDeltaTypeReplaced_false == FALSE

\* newInformer, lines 413-416: the options the informer builds its FIFO
\* with; the known objects are the store Process writes to.
EmitDeltaTypeReplaced == TRUE

\* The type of the deltas a Replace queues for the objects of its list.
ReplaceType == IF EmitDeltaTypeReplaced THEN "Replaced" ELSE "Sync"

\* Replace(list, rv)
FifoReplace(list) ==
  LET replaced == [i \in DOMAIN list |->
                     <<list[i], [Type |-> ReplaceType, Object |-> ReportedObj(list[i])]>>]
      pairs == replaced \o SynthesizedDeletes(list)
  IN /\ Produce(pairs)
     /\ initialPopulationCount' =
          IF ~queueClosed /\ ~populated THEN Len(pairs) ELSE initialPopulationCount
     /\ IF fifoPhase = "fresh" /\ ~queueClosed
          THEN /\ fifoPhase' = "replaced"
               /\ firstReplace' = [list |-> list, known |-> knownObjects]
          ELSE /\ fifoPhase' = "mixed"
               /\ UNCHANGED firstReplace

\* Resync(): a Sync delta with the known object for every known key that is
\* not queued.
FifoResync ==
  LET ks == InOrder(DOMAIN knownObjects \ DOMAIN fifoItems)
  IN /\ Produce([i \in DOMAIN ks |->
                   <<ks[i], [Type |-> "Sync", Object |-> knownObjects[ks[i]]]>>])
     /\ fifoPhase' = "mixed"
     /\ UNCHANGED <<initialPopulationCount, firstReplace>>

\* Close()
FifoClose ==
  /\ producerCalls < MaxEvents
  /\ producerCalls' = producerCalls + 1
  /\ queueClosed' = TRUE
  /\ fifoPhase' = "mixed"
  /\ UNCHANGED <<fifoItems, fifoQueue, populated, initialPopulationCount,
                 knownObjects, accepted, handed, kept, firstReplace>>
  /\ UNCHANGED <<retryOnError, stopCh, queued, closerPc, reflectorPc, runPc,
                 popObj, popErr, requeued, errCount>>

\* HasSynced()
HasSynced == populated /\ initialPopulationCount = 0

RECURSIVE ProcessDeltas(_, _)
\* Process of newInformer, lines 428-452, when no store call fails: what it
\* leaves in clientState.
ProcessDeltas(store, deltas) ==
  IF deltas = <<>>
    THEN store
    ELSE LET d == Head(deltas)
             k == KeyOf(KeyFunc(d.Object))
         IN ProcessDeltas(IF d.Type = "Deleted" THEN MapDel(store, k)
                                                ELSE MapPut(store, k, d.Object),
                          Tail(deltas))

\* processLoop, line 211: Queue.Pop(PopProcessFunc(c.config.Process)) takes
\* the head key and its Deltas out and calls Process with them under the
\* FIFO's lock; err is what Process returns.  With a nil error the loop
\* goes straight to its next Pop (line 212).
FifoPop(err) ==
  /\ runPc = "pop"
  /\ fifoQueue # <<>>
  /\ err # "nil" => errCount < MaxErrors
  /\ LET k == Head(fifoQueue)
         deltas == fifoItems[k]
     IN /\ fifoQueue' = Tail(fifoQueue)
        /\ fifoItems' = MapDel(fifoItems, k)
        /\ initialPopulationCount' =
             IF initialPopulationCount > 0 THEN initialPopulationCount - 1 ELSE 0
        /\ handed' = [handed EXCEPT ![k] = @ \o deltas]
        /\ kept' = IF err = "nil" THEN [kept EXCEPT ![k] = @ \o deltas] ELSE kept
        /\ knownObjects' = IF err = "nil" THEN ProcessDeltas(knownObjects, deltas)
                                          ELSE knownObjects
        /\ popObj' = {[key |-> k, deltas |-> deltas]}
  /\ popErr' = err
  /\ errCount' = IF err # "nil" THEN errCount + 1 ELSE errCount
  /\ requeued' = <<>>
  /\ runPc' = IF err = "nil" THEN "pop" ELSE "handle"
  /\ UNCHANGED <<populated, producerCalls, accepted, fifoPhase, firstReplace>>
  /\ UNCHANGED <<retryOnError, stopCh, queueClosed, queued, closerPc, reflectorPc>>

\* Pop on a closed FIFO returns ErrFIFOClosed.
FifoPopClosed ==
  /\ runPc = "pop"
  /\ queueClosed
  /\ popObj' = {}
  /\ popErr' = "ErrFIFOClosed"
  /\ requeued' = <<>>
  /\ runPc' = "handle"
  /\ UNCHANGED fifoVars
  /\ UNCHANGED <<retryOnError, stopCh, queueClosed, queued, closerPc,
                 reflectorPc, errCount>>

\* AddIfNotPresent(Deltas): a key that is not queued goes to the head of the
\* queue with the Deltas; for a queued key the Deltas are put in front of
\* the ones it has.
AddIfNotPresent(obj) ==
  /\ fifoItems' = MapPut(fifoItems, obj.key,
                         IF obj.key \in DOMAIN fifoItems
                           THEN obj.deltas \o fifoItems[obj.key]
                           ELSE obj.deltas)
  /\ fifoQueue' = IF obj.key \in DOMAIN fifoItems THEN fifoQueue
                                                  ELSE <<obj.key>> \o fifoQueue
  /\ populated' = TRUE

\* processLoop, lines 212-223, for an error of Pop, with the FIFO in detail.
FifoHandle ==
  /\ runPc = "handle"
  /\ IF popErr = "ErrFIFOClosed"
         THEN /\ runPc' = "sleep"
              /\ UNCHANGED <<fifoItems, fifoQueue, populated, kept, requeued>>
         ELSE LET obj == CHOOSE o \in popObj : TRUE
              IN /\ runPc' = "pop"
                 /\ IF PutsBack(retryOnError)
                      THEN /\ AddIfNotPresent(obj)
                           /\ requeued' = <<popObj>>
                           /\ UNCHANGED kept
                      ELSE /\ kept' = [kept EXCEPT ![obj.key] = @ \o obj.deltas]
                           /\ UNCHANGED <<fifoItems, fifoQueue, populated, requeued>>
  /\ UNCHANGED <<initialPopulationCount, knownObjects, producerCalls, accepted,
                 handed, fifoPhase, firstReplace>>
  /\ UNCHANGED <<retryOnError, stopCh, queueClosed, queued, closerPc,
                 reflectorPc, popObj, popErr, errCount>>

\* New(cfg) and Run up to the first Pop of processLoop.
InitFIFOLoop ==
  /\ retryOnError \in BOOLEAN
  /\ stopCh = FALSE
  /\ queueClosed = FALSE
  /\ queued = {}
  /\ closerPc = "wait"
  /\ reflectorPc = "running"
  /\ runPc = "pop"
  /\ popObj = {}
  /\ popErr = "nil"
  /\ requeued = <<>>
  /\ errCount = 0

InformerRetryOnError_true == TRUE

\* newInformer, line 425: the Config of the informer has RetryOnError false.
InformerRetryOnError == FALSE

\* New(cfg) for the Config of newInformer and Run up to the first Pop of
\* processLoop; the FIFO is left out, Pop hands any Deltas.
InitInformerLoop ==
  /\ retryOnError = InformerRetryOnError
  /\ stopCh = FALSE
  /\ queueClosed = FALSE
  /\ queued = {}
  /\ closerPc = "wait"
  /\ reflectorPc = "running"
  /\ runPc = "pop"
  /\ popObj = {}
  /\ popErr = "nil"
  /\ requeued = <<>>
  /\ errCount = 0

\* processLoop, line 211: Pop takes a Deltas out of the queue and calls
\* Process with it.
LoopPop(k, n) ==
  /\ runPc = "pop"
  /\ Pop(k, n)
  /\ runPc' = "process"
  /\ requeued' = <<>>
  /\ UNCHANGED <<retryOnError, stopCh, queueClosed, queued, closerPc,
                 reflectorPc, popObj, popErr, errCount>>

\* processLoop, line 211: when Process returns, Pop returns the Deltas and
\* the error of Process.
LoopProcess(ProcessStep) ==
  /\ runPc = "process"
  /\ ProcessStep
  /\ IF infPc' = "idle"
       THEN /\ runPc' = "handle"
            /\ popObj' = dkey
            /\ popErr' = IF procErr' = "nil" THEN "nil" ELSE "other"
       ELSE UNCHANGED <<runPc, popObj, popErr>>
  /\ UNCHANGED <<retryOnError, stopCh, queueClosed, queued, closerPc,
                 reflectorPc, requeued, errCount>>

\* ------------------------------------------------------------------------
\* Specifications
\* ------------------------------------------------------------------------

NextWQ ==
  \/ \E item \in Items : Add(item) /\ UNCHANGED <<rlVars, moVars, dqVars, keyVars, fifoVars, storeVars, infVars, filterVars, ctlVars>>
  \/ \E w \in Workers : Get(w) /\ UNCHANGED <<rlVars, moVars, dqVars, keyVars, fifoVars, storeVars, infVars, filterVars, ctlVars>>
  \/ \E w \in Workers : GetWake(w) /\ UNCHANGED <<rlVars, moVars, dqVars, keyVars, fifoVars, storeVars, infVars, filterVars, ctlVars>>
  \/ \E w \in Workers : Done(w) /\ UNCHANGED <<rlVars, moVars, dqVars, keyVars, fifoVars, storeVars, infVars, filterVars, ctlVars>>
  \/ ShutDown /\ UNCHANGED <<rlVars, moVars, dqVars, keyVars, fifoVars, storeVars, infVars, filterVars, ctlVars>>

InitSpecWQ == InitWQ /\ IdleRL /\ IdleMaxOf /\ IdleDelaying /\ IdleKey /\ IdleFIFO /\ IdleStore /\ IdleInformer /\ IdleFilter /\ IdleController

SpecWQ == InitSpecWQ /\ [][NextWQ]_vars

\* A goroutine that Signal or Broadcast has woken re-acquires the lock and
\* goes on in Get.  Calls of Add, Get, Done and ShutDown are up to the
\* clients and are not forced.
FairnessWQ ==
  \A w \in Workers :
    WF_vars(GetWake(w)
            /\ UNCHANGED <<rlVars, moVars, dqVars, keyVars, fifoVars, storeVars, infVars, filterVars, ctlVars>>)

SpecWQFair == InitSpecWQ /\ [][NextWQ]_vars /\ FairnessWQ

\* Workers that keep calling Get and call Done for every item they receive:
\* a worker that is not in Get calls it, a worker that was woken goes on, a
\* worker that holds an item calls Done.  Add and ShutDown are not forced.
FairnessWorkers ==
  \A w \in Workers :
    /\ WF_vars(Get(w) /\ UNCHANGED <<rlVars, moVars, dqVars, keyVars, fifoVars, storeVars, infVars, filterVars, ctlVars>>)
    /\ WF_vars(GetWake(w) /\ UNCHANGED <<rlVars, moVars, dqVars, keyVars, fifoVars, storeVars, infVars, filterVars, ctlVars>>)
    /\ WF_vars(Done(w) /\ UNCHANGED <<rlVars, moVars, dqVars, keyVars, fifoVars, storeVars, infVars, filterVars, ctlVars>>)

SpecWQWorkers == InitSpecWQ /\ [][NextWQ]_vars /\ FairnessWorkers


NextRL ==
  \/ \E item \in Items : When(item) /\ UNCHANGED <<wqVars, moVars, dqVars, keyVars, fifoVars, storeVars, infVars, filterVars, ctlVars>>
  \/ \E item \in Items : Forget(item) /\ UNCHANGED <<wqVars, moVars, dqVars, keyVars, fifoVars, storeVars, infVars, filterVars, ctlVars>>

InitSpecRL == InitRL /\ IdleMaxOf /\ IdleDelaying /\ InitWQ /\ IdleKey /\ IdleFIFO /\ IdleStore /\ IdleInformer /\ IdleFilter /\ IdleController

SpecRL == InitSpecRL /\ [][NextRL]_vars

NextMaxOf ==
  \/ \E item \in Items : MaxOfWhen(item) /\ UNCHANGED <<wqVars, rlVars, dqVars, keyVars, fifoVars, storeVars, infVars, filterVars, ctlVars>>
  \/ \E item \in Items : MaxOfForget(item) /\ UNCHANGED <<wqVars, rlVars, dqVars, keyVars, fifoVars, storeVars, infVars, filterVars, ctlVars>>

InitSpecMaxOf ==
  InitMaxOf /\ IdleDelaying /\ IdleRL /\ InitWQ /\ IdleKey /\ IdleFIFO /\ IdleStore /\ IdleInformer /\ IdleFilter /\ IdleController

SpecMaxOf == InitSpecMaxOf /\ [][NextMaxOf]_vars

NextRLQ ==
  \/ \E item \in RLQItems : AddRateLimited(item) /\ UNCHANGED <<moVars, keyVars, fifoVars, storeVars, infVars, filterVars, ctlVars>>
  \/ \E item \in RLQItems : RLQForget(item) /\ UNCHANGED <<moVars, keyVars, fifoVars, storeVars, infVars, filterVars, ctlVars>>
  \/ \E item \in RLQItems : WaitingLoopAdd(item) /\ UNCHANGED <<rlVars, moVars, keyVars, fifoVars, storeVars, infVars, filterVars, ctlVars>>
  \/ \E w \in RLQWorkers : Get(w) /\ UNCHANGED <<rlVars, moVars, dqVars, keyVars, fifoVars, storeVars, infVars, filterVars, ctlVars>>
  \/ \E w \in RLQWorkers : GetWake(w) /\ UNCHANGED <<rlVars, moVars, dqVars, keyVars, fifoVars, storeVars, infVars, filterVars, ctlVars>>
  \/ \E w \in RLQWorkers : Done(w) /\ UNCHANGED <<rlVars, moVars, dqVars, keyVars, fifoVars, storeVars, infVars, filterVars, ctlVars>>

InitSpecRLQ ==
  InitRLQ /\ IdleMaxOf /\ IdleKey /\ IdleFIFO /\ IdleStore /\ IdleInformer /\ IdleFilter /\ IdleController

SpecRLQ == InitSpecRLQ /\ [][NextRLQ]_vars

NextStore ==
  \/ \E k \in StoreKeys, o \in Objs : StoreAdd(k, o) /\ UNCHANGED <<wqVars, rlVars, moVars, dqVars, keyVars, fifoVars, infVars, filterVars, ctlVars>>
  \/ \E k \in StoreKeys, o \in Objs : StoreUpdate(k, o) /\ UNCHANGED <<wqVars, rlVars, moVars, dqVars, keyVars, fifoVars, infVars, filterVars, ctlVars>>
  \/ \E k \in StoreKeys : StoreDelete(k) /\ UNCHANGED <<wqVars, rlVars, moVars, dqVars, keyVars, fifoVars, infVars, filterVars, ctlVars>>
  \/ \E m \in ItemMaps : StoreReplace(m) /\ UNCHANGED <<wqVars, rlVars, moVars, dqVars, keyVars, fifoVars, infVars, filterVars, ctlVars>>
  \/ \E k \in StoreKeys : ReplaceIndex(k) /\ UNCHANGED <<wqVars, rlVars, moVars, dqVars, keyVars, fifoVars, infVars, filterVars, ctlVars>>
  \/ ReplaceReturn /\ UNCHANGED <<wqVars, rlVars, moVars, dqVars, keyVars, fifoVars, infVars, filterVars, ctlVars>>
  \/ \E new \in SUBSET IndexNames :
       AddIndexers(new) /\ UNCHANGED <<wqVars, rlVars, moVars, dqVars, keyVars, fifoVars, infVars, filterVars, ctlVars>>
  \/ \E n \in IndexNames, o \in Objs : Index(n, o) /\ UNCHANGED <<wqVars, rlVars, moVars, dqVars, keyVars, fifoVars, infVars, filterVars, ctlVars>>
  \/ \E n \in IndexNames, v \in LookupValues : ByIndex(n, v) /\ UNCHANGED <<wqVars, rlVars, moVars, dqVars, keyVars, fifoVars, infVars, filterVars, ctlVars>>
  \/ \E n \in IndexNames, v \in LookupValues : IndexKeys(n, v) /\ UNCHANGED <<wqVars, rlVars, moVars, dqVars, keyVars, fifoVars, infVars, filterVars, ctlVars>>

InitSpecStore == InitStore /\ InitWQ /\ IdleRL /\ IdleMaxOf /\ IdleDelaying /\ IdleKey /\ IdleFIFO /\ IdleInformer /\ IdleFilter /\ IdleController

SpecStore == InitSpecStore /\ [][NextStore]_vars

NextCache ==
  \/ \E list \in ReplaceLists : CacheReplace(list) /\ UNCHANGED <<wqVars, rlVars, moVars, dqVars, keyVars, fifoVars, infVars, filterVars, ctlVars>>
  \/ \E k \in StoreKeys : ReplaceIndex(k) /\ UNCHANGED <<wqVars, rlVars, moVars, dqVars, keyVars, fifoVars, infVars, filterVars, ctlVars>>
  \/ ReplaceReturn /\ UNCHANGED <<wqVars, rlVars, moVars, dqVars, keyVars, fifoVars, infVars, filterVars, ctlVars>>
  \/ \E o \in InfObjs \cup {NoMetaObj} : CacheAdd(o) /\ UNCHANGED <<wqVars, rlVars, moVars, dqVars, keyVars, fifoVars, infVars, filterVars, ctlVars>>
  \/ \E o \in InfObjs \cup {NoMetaObj} : CacheUpdate(o) /\ UNCHANGED <<wqVars, rlVars, moVars, dqVars, keyVars, fifoVars, infVars, filterVars, ctlVars>>
  \/ \E o \in InfObjs \cup {NoMetaObj} : CacheDelete(o) /\ UNCHANGED <<wqVars, rlVars, moVars, dqVars, keyVars, fifoVars, infVars, filterVars, ctlVars>>

InitSpecCache ==
  InitCache /\ InitWQ /\ IdleRL /\ IdleMaxOf /\ IdleDelaying /\ IdleKey /\ IdleFIFO /\ IdleInformer /\ IdleFilter /\ IdleController

SpecCache == InitSpecCache /\ [][NextCache]_vars

NextKey ==
  \/ KeyBuild /\ UNCHANGED <<wqVars, rlVars, moVars, dqVars, fifoVars, storeVars, infVars, filterVars, ctlVars>>
  \/ KeyTake /\ UNCHANGED <<wqVars, rlVars, moVars, dqVars, fifoVars, storeVars, infVars, filterVars, ctlVars>>
  \/ KeySplit /\ UNCHANGED <<wqVars, rlVars, moVars, dqVars, fifoVars, storeVars, infVars, filterVars, ctlVars>>

InitSpecKey ==
  InitKey /\ InitWQ /\ IdleRL /\ IdleMaxOf /\ IdleDelaying /\ IdleFIFO /\ IdleStore /\ IdleInformer /\ IdleFilter /\ IdleController

SpecKey == InitSpecKey /\ [][NextKey]_vars

NextFIFO ==
  \/ \E k \in FifoKeys : FifoAdd(k) /\ UNCHANGED <<wqVars, rlVars, moVars, dqVars, keyVars, storeVars, infVars, filterVars>>
  \/ \E k \in FifoKeys : FifoUpdate(k) /\ UNCHANGED <<wqVars, rlVars, moVars, dqVars, keyVars, storeVars, infVars, filterVars>>
  \/ \E k \in FifoKeys : FifoDelete(k) /\ UNCHANGED <<wqVars, rlVars, moVars, dqVars, keyVars, storeVars, infVars, filterVars>>
  \/ \E list \in KeyLists : FifoReplace(list) /\ UNCHANGED <<wqVars, rlVars, moVars, dqVars, keyVars, storeVars, infVars, filterVars>>
  \/ FifoResync /\ UNCHANGED <<wqVars, rlVars, moVars, dqVars, keyVars, storeVars, infVars, filterVars>>
  \/ FifoClose /\ UNCHANGED <<wqVars, rlVars, moVars, dqVars, keyVars, storeVars, infVars, filterVars>>
  \/ \E err \in {"nil", "other"} : FifoPop(err) /\ UNCHANGED <<wqVars, rlVars, moVars, dqVars, keyVars, storeVars, infVars, filterVars>>
  \/ FifoPopClosed /\ UNCHANGED <<wqVars, rlVars, moVars, dqVars, keyVars, storeVars, infVars, filterVars>>
  \/ FifoHandle /\ UNCHANGED <<wqVars, rlVars, moVars, dqVars, keyVars, storeVars, infVars, filterVars>>

InitSpecFIFO ==
  InitFIFO /\ InitFIFOLoop /\ InitWQ /\ IdleRL /\ IdleMaxOf /\ IdleDelaying /\ IdleKey /\ IdleStore /\ IdleInformer /\ IdleFilter

SpecFIFO == InitSpecFIFO /\ [][NextFIFO]_vars

NextInformer ==
  \/ \E k \in StoreKeys, n \in 1..MaxDeltas :
       Pop(k, n) /\ UNCHANGED <<wqVars, rlVars, moVars, dqVars, filterVars, ctlVars, keyVars, fifoVars>>
  \/ ProcessStore /\ UNCHANGED <<wqVars, rlVars, moVars, dqVars, filterVars, ctlVars, keyVars, fifoVars>>
  \/ ProcessNotify /\ UNCHANGED <<wqVars, rlVars, moVars, dqVars, filterVars, ctlVars, keyVars, fifoVars>>

InitSpecInformer == InitInformer /\ IdleKey /\ IdleFIFO /\ IdleStore /\ InitWQ /\ IdleRL /\ IdleMaxOf /\ IdleDelaying /\ IdleFilter /\ IdleController

SpecInformer == InitSpecInformer /\ [][NextInformer]_vars

NextInformerLoop ==
  \/ \E k \in StoreKeys, n \in 1..MaxDeltas :
       LoopPop(k, n) /\ UNCHANGED <<wqVars, rlVars, moVars, dqVars, keyVars, fifoVars, filterVars>>
  \/ LoopProcess(ProcessStore) /\ UNCHANGED <<wqVars, rlVars, moVars, dqVars, keyVars, fifoVars, filterVars>>
  \/ LoopProcess(ProcessNotify) /\ UNCHANGED <<wqVars, rlVars, moVars, dqVars, keyVars, fifoVars, filterVars>>
  \/ Handle /\ UNCHANGED <<storeVars, infVars>> /\ UNCHANGED <<wqVars, rlVars, moVars, dqVars, keyVars, fifoVars, filterVars>>

InitSpecInformerLoop == InitInformer /\ InitInformerLoop /\ IdleKey /\ IdleFIFO /\ IdleStore /\ InitWQ /\ IdleRL /\ IdleMaxOf /\ IdleDelaying /\ IdleFilter

SpecInformerLoop == InitSpecInformerLoop /\ [][NextInformerLoop]_vars

NextFilter ==
  \/ \E o \in FilterObjs : FilterOnAdd(o) /\ UNCHANGED <<streamObj, wqVars, rlVars, moVars, dqVars, keyVars, fifoVars, storeVars, infVars, ctlVars>>
  \/ \E o \in FilterObjs, n \in FilterObjs :
       FilterOnUpdate(o, n) /\ UNCHANGED <<streamObj, wqVars, rlVars, moVars, dqVars, keyVars, fifoVars, storeVars, infVars, ctlVars>>
  \/ \E o \in FilterObjs : FilterOnDelete(o) /\ UNCHANGED <<streamObj, wqVars, rlVars, moVars, dqVars, keyVars, fifoVars, storeVars, infVars, ctlVars>>

InitSpecFilter == InitFilter /\ InitWQ /\ IdleRL /\ IdleMaxOf /\ IdleDelaying /\ IdleKey /\ IdleFIFO /\ IdleStore /\ IdleInformer /\ IdleController

SpecFilter == InitSpecFilter /\ [][NextFilter]_vars

NextFilterStream ==
  \/ \E o \in FilterObjs : StreamAdd(o) /\ UNCHANGED <<wqVars, rlVars, moVars, dqVars, keyVars, fifoVars, storeVars, infVars, ctlVars>>
  \/ \E n \in FilterObjs : StreamUpdate(n) /\ UNCHANGED <<wqVars, rlVars, moVars, dqVars, keyVars, fifoVars, storeVars, infVars, ctlVars>>
  \/ StreamDelete /\ UNCHANGED <<wqVars, rlVars, moVars, dqVars, keyVars, fifoVars, storeVars, infVars, ctlVars>>

InitSpecFilterStream == InitFilter /\ InitWQ /\ IdleRL /\ IdleMaxOf /\ IdleDelaying /\ IdleKey /\ IdleFIFO /\ IdleStore /\ IdleInformer /\ IdleController

SpecFilterStream == InitSpecFilterStream /\ [][NextFilterStream]_vars

NextController ==
  \/ Stop /\ UNCHANGED <<wqVars, rlVars, moVars, dqVars, keyVars, fifoVars, storeVars, infVars, filterVars>>
  \/ CloserRun /\ UNCHANGED <<wqVars, rlVars, moVars, dqVars, keyVars, fifoVars, storeVars, infVars, filterVars>>
  \/ \E k \in StoreKeys : ReflectorAdd(k) /\ UNCHANGED <<wqVars, rlVars, moVars, dqVars, keyVars, fifoVars, storeVars, infVars, filterVars>>
  \/ ReflectorExit /\ UNCHANGED <<wqVars, rlVars, moVars, dqVars, keyVars, fifoVars, storeVars, infVars, filterVars>>
  \/ UntilCheck /\ UNCHANGED <<wqVars, rlVars, moVars, dqVars, keyVars, fifoVars, storeVars, infVars, filterVars>>
  \/ PopClosed /\ UNCHANGED <<wqVars, rlVars, moVars, dqVars, keyVars, fifoVars, storeVars, infVars, filterVars>>
  \/ \E k \in StoreKeys, err \in {"nil", "other"} : PopItem(k, err) /\ UNCHANGED <<wqVars, rlVars, moVars, dqVars, keyVars, fifoVars, storeVars, infVars, filterVars>>
  \/ Handle /\ UNCHANGED <<wqVars, rlVars, moVars, dqVars, keyVars, fifoVars, storeVars, infVars, filterVars>>
  \/ UntilSleep /\ UNCHANGED <<wqVars, rlVars, moVars, dqVars, keyVars, fifoVars, storeVars, infVars, filterVars>>
  \/ WgWait /\ UNCHANGED <<wqVars, rlVars, moVars, dqVars, keyVars, fifoVars, storeVars, infVars, filterVars>>

InitSpecController ==
  InitController /\ InitWQ /\ IdleRL /\ IdleMaxOf /\ IdleDelaying /\ IdleKey /\ IdleFIFO /\ IdleStore /\ IdleInformer /\ IdleFilter

SpecController == InitSpecController /\ [][NextController]_vars

\* Every goroutine of Run that can take a step takes one: the helper of
\* line 147, the Reflector, and Run's own goroutine in wait.Until,
\* processLoop and wg.Wait.  Pop returns when the Queue holds a key or is
\* closed.  Closing stopCh is up to the owner and is not forced.
FairnessController ==
  LET others == <<wqVars, rlVars, moVars, dqVars, keyVars, fifoVars, storeVars, infVars, filterVars>>
  IN /\ WF_vars(CloserRun /\ UNCHANGED others)
     /\ WF_vars(ReflectorExit /\ UNCHANGED others)
     /\ WF_vars(UntilCheck /\ UNCHANGED others)
     /\ WF_vars((PopClosed \/ \E k \in StoreKeys, err \in {"nil", "other"} :
                                PopItem(k, err))
                 /\ UNCHANGED others)
     /\ WF_vars(Handle /\ UNCHANGED others)
     /\ WF_vars(UntilSleep /\ UNCHANGED others)
     /\ WF_vars(WgWait /\ UNCHANGED others)

SpecControllerFair ==
  InitSpecController /\ [][NextController]_vars /\ FairnessController

\* ------------------------------------------------------------------------
\* Properties of the work queue
\* ------------------------------------------------------------------------

Count(x, s) == Cardinality({i \in DOMAIN s : s[i] = x})

IsPrefix(s, t) == Len(s) <= Len(t) /\ \A i \in DOMAIN s : s[i] = t[i]

\* C1: at most one in flight.  Workers call Done only for the item their Get
\* returned, once (action Done); then no item is held by two workers at the
\* same time: between the Get that returned x and its Done(x) no other Get
\* returns x, however often x is added meanwhile.
C1_AtMostOneInFlight ==
  /\ \A w1, w2 \in Workers : w1 # w2 => held[w1] \cap held[w2] = {}
  /\ processing = UNION {held[w] : w \in Workers}

\* C1 witness: x is in flight, was added again meanwhile, and the Get of
\* another worker found nothing to return and waits.
C1_Witness ==
  \E w1, w2 \in Workers :
    /\ w1 # w2
    /\ held[w1] # {}
    /\ held[w1] \subseteq dirty
    /\ lastCall = <<"Get", w2>>
    /\ waitPc[w2] = "waiting"

\* C2 (amended): coalescing.  An Add(x) made while x is in processing and
\* the queue is not shutting down marks x dirty and leaves queue, and so Len,
\* as it was; a repeated Add(x) changes nothing; the Done(x) that follows
\* appends x to queue exactly once, so that x is queued exactly once and is
\* got once more.
C2_Step ==
  \A x \in Items :
    /\ (lastCall' = <<"Add", x>> /\ x \in processing /\ ~shuttingDown)
         => /\ queue' = queue
            /\ dirty' = dirty \cup {x}
            /\ processing' = processing
    /\ (lastCall' = <<"Done", x>> /\ x \in processing /\ x \in dirty)
         => /\ queue' = Append(queue, x)
            /\ Count(x, queue') = 1
            /\ x \in dirty'
            /\ x \notin processing'
    /\ (lastCall' = <<"Done", x>> /\ x \in processing /\ x \notin dirty)
         => queue' = queue

C2_Coalescing == [][C2_Step]_vars

\* C2 as stated: every Add(x) made while x is in processing records x in
\* dirty (and leaves queue unchanged), whatever the state of the queue.
C2_OriginalStep ==
  \A x \in Items :
    (lastCall' = <<"Add", x>> /\ x \in processing)
      => (queue' = queue /\ x \in dirty')

C2_Original == [][C2_OriginalStep]_vars

\* C2 witness: x was added while it was processed and its Done has just put
\* it back: it is queued once, dirty, and no longer in processing.
C2_Witness ==
  \E x \in Items :
    /\ lastCall = <<"Done", x>>
    /\ Count(x, queue) = 1
    /\ x \in dirty
    /\ x \notin processing

C6_FirstAddOrder == IsPrefix(firstGets, firstAdds)

C6_DirtyAddKeepsQueue ==
  \A x \in Items :
    (lastCall' = <<"Add", x>> /\ x \in dirty) => UNCHANGED <<queue, dirty, processing>>

C6_Order == [](C6_FirstAddOrder) /\ [][C6_DirtyAddKeepsQueue]_vars

\* C6 witness: every item has been handed out, in the order of the first
\* Adds, although the item first added was added again before it was got.
C6_Witness ==
  /\ Len(firstGets) = NumItems
  /\ firstGets = firstAdds
  /\ Len(queue) >= 1

\* Every dirty item is waiting in the queue or being processed.
DirtyIsQueuedOrProcessing ==
  \A x \in dirty : x \in Range(queue) \/ x \in processing

\* The Done of an item that was marked dirty while it was processed puts it
\* into the queue.
DoneRequeuesDirty ==
  \A x \in Items :
     (lastCall' = <<"Done", x>> /\ x \in processing /\ x \notin processing'
        /\ x \in dirty)
       => x \in Range(queue') /\ x \in dirty'

\* C30: in every state reachable by Add, Get, Done and ShutDown every item
\* in dirty is in queue or in processing, and the Done of an item that is
\* dirty re-queues it: an item whose Add was accepted is either waiting to
\* be handed out or will be re-queued when its processing is done.
C30_NoStrandedWork == []DirtyIsQueuedOrProcessing /\ [][DoneRequeuesDirty]_vars

\* An item that was added again while it was processed has just been
\* re-queued by Done, after ShutDown or not: it is dirty, queued and no
\* longer processed, and another item is still processed.
C30_Witness ==
  \E x \in Items :
     /\ lastCall = <<"Done", x>>
     /\ x \in dirty
     /\ x \in Range(queue)
     /\ x \notin processing
     /\ processing # {}

\* Get has just returned item x to a worker.
Returns(x) ==
  \E w \in Workers :
     /\ lastCall \in {<<"Get", w>>, <<"GetWake", w>>}
     /\ waitPc[w] = "working"
     /\ held[w] = {x}

\* C31: with workers that keep calling Get and call Done for every item
\* they receive, an item whose Add was accepted (it is in dirty, in the
\* queue or waiting for the Done of its processing) is eventually returned
\* by a Get, whether or not ShutDown is called before that and whichever
\* waiting worker each Signal wakes.
C31_Delivery == \A x \in Items : (x \in dirty) ~> Returns(x)

\* An item that was added while it was being processed, before a ShutDown
\* that came before it was handed out again, has been returned by a Get
\* after the ShutDown.
C31_Witness ==
  \E x \in Items :
     /\ Returns(x)
     /\ shuttingDown
     /\ x \in Range(getsSince)
     /\ x \notin Range(atShutDown)

\* ------------------------------------------------------------------------
\* Properties of the rate limiters
\* ------------------------------------------------------------------------

\* C7: exponential limiter: the i-th When(x) since creation or the last
\* Forget(x) returns min(baseDelay * 2^(i-1), maxDelay), whatever was asked
\* for other items.
C7_ExpWhenIsCappedPower ==
  \A x \in Items :
    (limiter.kind = "exp" /\ rlLast = <<"When", x>>)
      => rlRet = Min(limiter.baseDelay * Pow2(calls[x] - 1), limiter.maxDelay)

\* C8: Forget resets the state of one item.  NumRequeues(x) is the number of
\* When(x) calls since the last Forget(x), so 0 right after Forget(x); the
\* first When(x) after a Forget(x) returns what the very first When(x)
\* returned; Forget(x) leaves the count and the next When of every other item
\* as they were.
C8_Inv ==
  \A x \in Items :
    /\ NumRequeues(x) = calls[x]
    /\ rlLast = <<"Forget", x>> => NumRequeues(x) = 0
    /\ (rlLast = <<"When", x>> /\ calls[x] = 1) => firstRet[x] = {rlRet}

C8_ForgetStep ==
  \A x \in Items :
    rlLast' = <<"Forget", x>> =>
      \A y \in Items \ {x} :
        /\ FailuresOf(failures', y) = FailuresOf(failures, y)
        /\ WhenResults(limiter', failures', y) = WhenResults(limiter, failures, y)

C8_ForgetResets == [](C8_Inv) /\ [][C8_ForgetStep]_vars

\* C8 witness: x was asked for several times, forgotten, and asked for again
\* (its count is 1 again), while another item keeps a count of two or more.
C8_Witness ==
  \E x, y \in Items :
    /\ x # y
    /\ wasForgotten[x]
    /\ rlLast = <<"When", x>>
    /\ calls[x] = 1
    /\ NumRequeues(y) >= 2

\* ------------------------------------------------------------------------
\* Properties of the thread-safe store
\* ------------------------------------------------------------------------

\* The keys indices[n][v] holds; none when the index or the bucket is missing.
Bucket(n, v) ==
  IF n \in DOMAIN indices /\ v \in DOMAIN indices[n] THEN indices[n][v] ELSE {}

\* Every value an index function of the model can yield, and every value an
\* index holds.
IndexValueSpace ==
  UNION {Range(IndexValues(n, o)) : n \in IndexNames, o \in Objs}
  \cup UNION {DOMAIN indices[n] : n \in DOMAIN indices}

\* C3: index consistency.  For every registered index n, value v and key k:
\* k is in indices[n][v] exactly when k is stored and v is one of the values
\* indexers[n] yields for items[k]; no index exists for an unregistered
\* name; and no value of any index maps to an empty key set.
C3_IndicesConsistent ==
  LockFree =>
  /\ \A n \in indexers, v \in IndexValueSpace, k \in StoreKeys :
       k \in Bucket(n, v)
         <=> (k \in DOMAIN items /\ v \in Range(IndexValues(n, items[k])))
  /\ DOMAIN indices \subseteq indexers
  /\ \A n \in DOMAIN indices : \A v \in DOMAIN indices[n] : indices[n][v] # {}

\* C11: AddIndexers(new) returns an error and leaves the indexers as they
\* are when the store holds an item or a name of new is registered already;
\* otherwise it returns no error and the indexers are the old ones and
\* those of new.
C11_Step ==
  (Len(lastStore') = 3 /\ lastStore'[1] = "AddIndexers" /\ LockFree)
  => LET new == lastStore'[2]
         err == lastStore'[3]
     IN IF DOMAIN items # {} \/ \E n \in new : n \in indexers
          THEN err /\ indexers' = indexers
          ELSE ~err /\ indexers' = indexers \cup new

C11_AddIndexers == [][C11_Step]_vars

\* C11 witness: a store that lost its last item accepted a new indexer.
C11_Witness ==
  /\ Len(lastStore) = 3
  /\ lastStore[1] = "AddIndexers"
  /\ ~lastStore[3]
  /\ lastStore[2] # {}
  /\ lastStore[2] \subseteq indexers
  /\ \E n \in DOMAIN indices : n \notin lastStore[2]

\* The keys an index over the items m holds for value v of indexer n.
DerivedBucket(m, n, v) ==
  {k \in DOMAIN m : v \in Range(IndexValues(n, m[k]))}

\* C12: whenever the lock is free after Replace(m), so whenever a reader or
\* another call can look at the store, the stored map is exactly m and the
\* indices hold exactly the buckets derived from the objects of m: nothing
\* of the previous contents is left, and no state in between is visible.
C12_ReplaceIsComplete ==
  (LockFree /\ lastStore[1] = "Replace")
  => LET m == lastStore[2]
     IN /\ items = m
        /\ DOMAIN indices \subseteq indexers
        /\ \A n \in DOMAIN indices : \A v \in DOMAIN indices[n] :
             indices[n][v] # {} /\ indices[n][v] = DerivedBucket(m, n, v)
        /\ \A n \in indexers, v \in IndexValueSpace :
             DerivedBucket(m, n, v) # {}
               => (n \in DOMAIN indices /\ v \in DOMAIN indices[n])

\* C12 witness: a Replace has returned whose map drops a key that was
\* stored and indexed before; the key and its buckets are gone.
C12_Witness ==
  /\ LockFree
  /\ lastStore[1] = "Replace"
  /\ indexers = IndexNames
  /\ DOMAIN lastStore[2] # {}
  /\ DOMAIN lastStore[2] # StoreKeys
  /\ \E n \in DOMAIN indices : DOMAIN indices[n] # {}

\* The list holds, each exactly once, the objects the store holds under the
\* keys, and nothing else.
HoldsOnce(list, ks) ==
  /\ Len(list) = Cardinality(ks \cap DOMAIN items)
  /\ \A i \in DOMAIN list : list[i] # {}
  /\ \A o \in Objs :
       Count({o}, list) = Cardinality({k \in ks \cap DOMAIN items : items[k] = o})

\* The lookup the history records returned an error and no result for a
\* name that is not registered, and otherwise no error and as its result a
\* list for which Right holds.
Returned(Right(_)) ==
  IF lastStore[2] \in indexers
    THEN /\ ~lastStore[4]
         /\ \E list \in lastStore[5] : lastStore[5] = {list} /\ Right(list)
    ELSE lastStore[4] /\ lastStore[5] = {}

\* What the last lookup returned, against the store it was made on.
C27_Results ==
  /\ lastStore[1] = "Index" =>
       LET values == IndexValues(lastStore[2], lastStore[3])
           ks == UNION {Bucket(lastStore[2], values[i]) : i \in DOMAIN values}
           Right(list) == HoldsOnce(list, ks)
       IN Returned(Right)
  /\ lastStore[1] = "ByIndex" =>
       LET Right(list) == HoldsOnce(list, Bucket(lastStore[2], lastStore[3]))
       IN Returned(Right)
  /\ lastStore[1] = "IndexKeys" =>
       LET ks == Bucket(lastStore[2], lastStore[3])
           Right(list) == Len(list) = Cardinality(ks) /\ Range(list) = ks
       IN Returned(Right)

\* C27: Index(name, obj) returns, each exactly once, the stored objects
\* whose keys are in the union of indices[name][v] over the values v the
\* index function yields for obj (none when there is no value or no
\* bucket); ByIndex(name, v) returns the stored objects and IndexKeys(name,
\* v) the keys of indices[name][v]; for a name that is not registered each
\* returns an error and no result; and a lookup leaves the items, the
\* indexers and the indices as they were.
C27_IndexLookups ==
  [][lastStore'[1] \in {"Index", "ByIndex", "IndexKeys"} =>
       /\ C27_Results'
       /\ UNCHANGED <<items, indexers, indices>>]_vars

\* An Index call whose object has several values, one of them twice, has
\* returned two stored objects found under different values, and one of
\* the keys is in more than one of the buckets.
C27_Witness ==
  /\ lastStore[1] = "Index"
  /\ lastStore[2] \in indexers
  /\ Len(IndexValues(lastStore[2], lastStore[3])) > 1
  /\ \E list \in lastStore[5] : Len(list) = 2 /\ list[1] # list[2]
  /\ \E k \in DOMAIN items :
       Cardinality({v \in DOMAIN indices[lastStore[2]] :
                      k \in indices[lastStore[2]][v]}) > 1

\* C3 witness: an Update has just replaced the object of a key by one with
\* other index values, and a bucket of the old object, left without a key,
\* is gone while another key is still indexed.
C3_Witness ==
  \E k \in StoreKeys, new \in Objs, old \in Objs, n \in indexers :
    /\ lastStore = <<"Update", k, new, {old}>>
    /\ Range(IndexValues(n, old)) # Range(IndexValues(n, new))
    /\ \E v \in Range(IndexValues(n, old)) : v \notin DOMAIN indices[n]
    /\ DOMAIN items # {k}

\* ------------------------------------------------------------------------
\* Properties of the informer's Process
\* ------------------------------------------------------------------------

\* C9, the store call: for a delta of type Sync, Replaced, Added or Updated
\* whose object has a key, Process calls Update on the store when the key is
\* stored and Add when it is not, and the store then holds the new object.
C9_StoreStep ==
  (infPc = "store" /\ infPc' = "notify" /\ delta'[1].Type \in NonDeleteTypes)
  => LET new == delta'[1].Object
         k == KeyOf(KeyFunc(new))
     IN /\ KeyFunc(new) # {}
        /\ lastStore' = IF k \in DOMAIN items
                          THEN <<"Update", k, new, {items[k]}>>
                          ELSE <<"Add", k, new, {}>>
        /\ items' = MapPut(items, k, new)

\* C9, the handler call: after Update the handler gets OnUpdate(old, new),
\* old being the object the store held just before the Update; after Add it
\* gets OnAdd(new).  So OnAdd is never called for a key that was stored and
\* OnUpdate never for one that was not.
C9_NotifyStep ==
  (infPc = "notify" /\ delta[1].Type \in NonDeleteTypes)
  => LET new == delta[1].Object
     IN /\ lastStore[1] \in {"Add", "Update"}
        /\ lastStore[3] = new
        /\ items' = items
        /\ lastNotify' =
             IF lastStore[1] = "Update"
               THEN <<"OnUpdate", CHOOSE x \in lastStore[4] : TRUE, new>>
               ELSE <<"OnAdd", new>>
        /\ lastStore[1] = "Update" <=> lastStore[4] # {}

\* C9: non-delete deltas are applied as Update + OnUpdate(old, new) when the
\* key is in the store and as Add + OnAdd(new) when it is not.
C9_NonDeleteDeltas == [][C9_StoreStep /\ C9_NotifyStep]_vars

\* C9 witness: Process has returned nil after a delta replaced a stored
\* object by a different one: the store was updated and the handler got
\* OnUpdate with the two distinct objects.
C9_Witness ==
  /\ infPc = "idle"
  /\ procErr = "nil"
  /\ Len(lastNotify) = 3
  /\ lastNotify[1] = "OnUpdate"
  /\ lastNotify[2] # lastNotify[3]
  /\ lastStore = <<"Update", KeyOf(KeyFunc(lastNotify[3])), lastNotify[3], {lastNotify[2]}>>

\* The calls Process has made for the Deltas it was handed go through the
\* indices from 1 upwards, for each index the store call and then the
\* handler call for the same delta; a store call that fails is the last.
InIndexOrder ==
  /\ \A j \in DOMAIN procCalls :
       /\ procCalls[j][2] = (j + 1) \div 2
       /\ IF j % 2 = 1
            THEN /\ procCalls[j][1] \in {"store", "error"}
                 /\ procCalls[j][1] = "error" => j = Len(procCalls)
            ELSE /\ procCalls[j][1] = "notify"
                 /\ procCalls[j - 1][1] = "store"
                 /\ procCalls[j][3] = procCalls[j - 1][3]
  /\ Len(procCalls) <= 2 * dn \/ infPc = "idle"
  /\ infPc = "store" => Len(procCalls) = 2 * (di - 1)
  /\ infPc = "notify" => /\ Len(procCalls) = 2 * di - 1
                         /\ procCalls[Len(procCalls)] = <<"store", di, delta[1]>>

\* The store is written and the handler called only by the calls the
\* history records: a store call for the delta at the index the loop is at,
\* with the delta's object, and a handler call for that same delta.
CallsAreRecorded ==
  /\ (lastStore' # lastStore \/ items' # items) =>
       /\ infPc = "store"
       /\ \E d \in DeltaSet(KeyOf(dkey)) :
            /\ procCalls' = Append(procCalls, <<"store", di, d>>)
            /\ IF d.Type = "Deleted" THEN lastStore'[1] = "Delete"
                                     ELSE /\ lastStore'[1] \in {"Add", "Update"}
                                          /\ lastStore'[3] = d.Object
       /\ UNCHANGED lastNotify
  /\ lastNotify' # lastNotify =>
       /\ infPc = "notify"
       /\ procCalls' = Append(procCalls, <<"notify", di, delta[1]>>)
       /\ lastNotify'[Len(lastNotify')] = delta[1].Object
       /\ UNCHANGED <<items, lastStore>>

\* C28: Process handles the deltas of a popped Deltas in index order, oldest
\* first; for each delta it first makes the store call and then the handler
\* call, both before any store or handler call for the next delta, so the
\* handler is called for the deltas of a key in the order they were queued.
C28_ProcessorOrder == []InIndexOrder /\ [][CallsAreRecorded]_vars

\* Process has returned nil for a Deltas of two different deltas: four
\* calls, store and handler for the first, store and handler for the second.
C28_Witness ==
  /\ infPc = "idle"
  /\ procErr = "nil"
  /\ Len(procCalls) = 4
  /\ procCalls[1][3] # procCalls[3][3]
  /\ procCalls[4] = <<"notify", 2, procCalls[3][3]>>
  /\ lastNotify[Len(lastNotify)] = procCalls[3][3].Object

\* The store key of a Deleted delta: the Key of a DeletedFinalStateUnknown,
\* the name of any other object.
DeletedKey(obj) == IF "Key" \in DOMAIN obj THEN obj.Key ELSE obj.name

\* The store call of a Deleted delta never fails for a
\* DeletedFinalStateUnknown, whatever it carries.
EnvelopeHasKey ==
  \A j \in DOMAIN procCalls :
     (procCalls[j][1] = "error" /\ procCalls[j][3].Type = "Deleted")
       => procCalls[j][3].Object = NoMetaObj

\* The calls Process makes for a Deleted delta: Delete on the store with
\* the delta's key, after which the store does not hold the key, and then
\* OnDelete with the object the delta carries.
DeletedStep ==
  /\ (Len(procCalls') > Len(procCalls) /\ infPc = "store") =>
       LET call == procCalls'[Len(procCalls')]
           d == call[3]
       IN (call[1] = "store" /\ d.Type = "Deleted") =>
            /\ lastStore' = <<"Delete", DeletedKey(d.Object),
                              OldObject(DeletedKey(d.Object))>>
            /\ DeletedKey(d.Object) \notin DOMAIN items'
            /\ items' = MapDel(items, DeletedKey(d.Object))
            /\ UNCHANGED lastNotify
  /\ (infPc = "notify" /\ delta[1].Type = "Deleted" /\ procCalls' # procCalls) =>
       /\ lastNotify' = <<"OnDelete", delta[1].Object>>
       /\ DeletedKey(delta[1].Object) \notin DOMAIN items'

\* C29: for a Deleted delta Process removes the entry from the store and
\* then calls OnDelete with the object the delta carries; when that object
\* is a DeletedFinalStateUnknown the store key is its Key, the key function
\* being applied neither to the envelope nor to the object in it, which may
\* be nil: the store does not hold the key afterwards and OnDelete receives
\* the envelope.
C29_DeletedDeltas == []EnvelopeHasKey /\ [][DeletedStep]_vars

\* OnDelete has just been called with a DeletedFinalStateUnknown that
\* carries no object, after its key was deleted from the store, which held
\* it.
C29_Witness ==
  /\ Len(procCalls) >= 2
  /\ LET d == procCalls[Len(procCalls)][3]
     IN /\ procCalls[Len(procCalls)][1] = "notify"
        /\ d.Type = "Deleted"
        /\ "Key" \in DOMAIN d.Object
        /\ d.Object.Obj = {}
        /\ lastNotify = <<"OnDelete", d.Object>>
        /\ lastStore[1] = "Delete"
        /\ lastStore[2] = d.Object.Key
        /\ lastStore[3] # {}
        /\ d.Object.Key \notin DOMAIN items

\* The keys for which the most recent call on the handler is OnAdd or
\* OnUpdate.
HandlerHolds == {k \in StoreKeys : handlerView[k] # {}}

\* C32: the store being modified only by Process, after every processed
\* Deltas (Process has returned, with an error or without) the keys for
\* which the handler's most recent notification is OnAdd or OnUpdate are
\* the keys of the store, and the new object of that notification is the
\* object the store holds for the key.
C32_StoreAndHandlerAgree ==
  infPc = "idle" =>
    /\ HandlerHolds = DOMAIN items
    /\ \A k \in DOMAIN items : handlerView[k] = {items[k]}

\* Process has returned nil for a Deltas that stored an object and then
\* deleted it: the handler was told of both and holds nothing for the key,
\* while the store and the handler hold the same object of another key.
C32_Witness ==
  /\ infPc = "idle"
  /\ procErr # "none"
  /\ Len(procCalls) = 4
  /\ lastNotify[1] = "OnDelete"
  /\ lastStore[1] = "Delete" /\ lastStore[3] # {}
  /\ handlerView[lastStore[2]] = {}
  /\ procCalls[1][3].Type \in NonDeleteTypes
  /\ \E k \in DOMAIN items : handlerView[k] = {items[k]}

\* Process has stopped at a store call that failed.
StoppedAtError ==
  procCalls # <<>> /\ procCalls[Len(procCalls)][1] = "error"

\* After a failed store call for the delta at index i: Process has returned
\* the error, the calls it made are the store and handler calls of the
\* deltas before i and nothing for i or later, the handler's last call is
\* still the one for the delta before i, and processLoop has not put the
\* Deltas back.
StopsAtFirstError ==
  StoppedAtError =>
    LET n == Len(procCalls)
        i == procCalls[n][2]
    IN /\ infPc = "idle"
       /\ procErr = "KeyError"
       /\ n = 2 * i - 1
       /\ \A j \in 1..(n - 1) : procCalls[j][1] # "error"
       /\ i > 1 => /\ procCalls[n - 1][1] = "notify"
                   /\ lastNotify[Len(lastNotify)] = procCalls[n - 1][3].Object
       /\ popErr = "other"
       /\ runPc \in {"handle", "pop"}
       /\ requeued = <<>>
       /\ queued = {}

\* The step in which the store call fails and the step in which
\* processLoop deals with the error leave the store and the handler as
\* they are.
ErrorKeepsEffects ==
  /\ (StoppedAtError' /\ procCalls' # procCalls) =>
       /\ UNCHANGED <<items, indices, lastStore, lastNotify, handlerView>>
       /\ runPc' = "handle"
  /\ (runPc = "handle" /\ popErr = "other") =>
       /\ UNCHANGED <<items, indices, lastStore, lastNotify, handlerView,
                      queued, procCalls>>
       /\ runPc' = "pop"
       /\ requeued' = <<>>

\* C33: when a store call fails for the delta at index i of a popped
\* Deltas, Process returns that error at once: the handler is not called
\* for it, the deltas after it are neither applied nor notified, what the
\* deltas before it did to the store and the handler stays, and, the
\* informer's Config having RetryOnError false, processLoop does not call
\* AddIfNotPresent.
C33_StopsAtFirstError == []StopsAtFirstError /\ [][ErrorKeepsEffects]_vars

\* The store call of the second delta of a Deltas failed after the first
\* was stored and notified; processLoop is back at Pop and nothing was put
\* back.
C33_Witness ==
  /\ StoppedAtError
  /\ Len(procCalls) = 3
  /\ dn = 0
  /\ runPc = "pop"
  /\ requeued = <<>>
  /\ DOMAIN items # {}
  /\ lastStore[1] \in {"Add", "Update"}
  /\ lastStore[3] = procCalls[1][3].Object

\* ------------------------------------------------------------------------
\* Properties of the filtering handler
\* ------------------------------------------------------------------------

\* C10: OnUpdate(old, new) forwards OnUpdate(old, new) when both objects pass
\* the filter, OnAdd(new) when only new passes, OnDelete(old) when only old
\* passes and nothing when neither passes; OnAdd(obj) and OnDelete(obj) are
\* forwarded exactly when obj passes the filter.
C10_FilterForwarding ==
  upstream # <<>> =>
    LET passes(o) == o \in filterPass
    IN IF upstream[1] = "OnUpdate"
         THEN LET o == upstream[2]
                  n == upstream[3]
              IN /\ (passes(o) /\ passes(n))
                      => forwarded = << <<"OnUpdate", o, n>> >>
                 /\ (~passes(o) /\ passes(n))
                      => forwarded = << <<"OnAdd", n>> >>
                 /\ (passes(o) /\ ~passes(n))
                      => forwarded = << <<"OnDelete", o>> >>
                 /\ (~passes(o) /\ ~passes(n)) => forwarded = <<>>
         ELSE /\ passes(upstream[2]) => forwarded = <<upstream>>
              /\ ~passes(upstream[2]) => forwarded = <<>>

\* C10 witness: an update from an object that does not pass the filter to
\* one that passes has been forwarded as OnAdd of the new object.
C10_Witness ==
  /\ Len(upstream) = 3
  /\ upstream[2] \notin filterPass
  /\ upstream[3] \in filterPass
  /\ forwarded = << <<"OnAdd", upstream[3]>> >>

\* The nested Handler holds the object as added exactly when the caller's
\* latest object exists and passes the filter.
HeldIffPasses ==
  nestedHeld <=> \E o \in streamObj : FilterFunc(o)

\* The calls an upstream event makes on the nested Handler fit what it
\* holds: OnUpdate and OnDelete only while it holds the object as added,
\* OnAdd only while it does not.
NestedWellFormed ==
  \A i \in DOMAIN forwarded' :
     (upstream' # upstream \/ forwarded' # forwarded \/ streamObj' # streamObj) =>
       IF forwarded'[i][1] = "OnAdd" THEN ~nestedHeld ELSE nestedHeld

\* C34: with a pure filter and a well-formed upstream stream for one object
\* (OnAdd, then OnUpdate from the previous new object, then OnDelete of the
\* last object) the nested handler never receives OnUpdate or OnDelete
\* while it does not hold the object as added and never two OnAdd without
\* an OnDelete between them, and after each upstream event it holds the
\* object as added exactly when the latest object exists and passes the
\* filter.
C34_NestedViewWellFormed == []HeldIffPasses /\ [][NestedWellFormed]_vars

\* In the well-formed stream, an update from a version that does not pass
\* the filter to one that does has reached the nested handler as OnAdd,
\* and it now holds the object as added.
C34_Witness ==
  /\ Len(upstream) = 3
  /\ upstream[2] \notin filterPass
  /\ upstream[3] \in filterPass
  /\ forwarded = << <<"OnAdd", upstream[3]>> >>
  /\ nestedHeld
  /\ streamObj = {upstream[3]}

\* ------------------------------------------------------------------------
\* Properties of the controller
\* ------------------------------------------------------------------------

\* C13: processLoop returns only when Pop has returned ErrFIFOClosed; after
\* any other error the popped object is put back with AddIfNotPresent
\* exactly when RetryOnError is set, and otherwise nothing is put back; in
\* both cases, as after a Pop without error, the loop calls Pop again.
C13_Step ==
  (runPc = "handle" /\ runPc' # "handle")
  => IF popErr = "ErrFIFOClosed"
       THEN runPc' = "sleep" /\ requeued' = <<>> /\ queued' = queued
       ELSE /\ runPc' = "pop"
            /\ IF popErr = "other" /\ retryOnError
                 THEN requeued' = <<popObj>> /\ queued' = queued \cup popObj
                 ELSE requeued' = <<>> /\ queued' = queued

C13_PopLoopErrorPolicy == [][C13_Step]_vars

\* C13 witness: Process failed, the popped object was put back and the
\* loop is at Pop again.
C13_Witness ==
  /\ runPc = "pop"
  /\ popErr = "other"
  /\ retryOnError
  /\ requeued = <<popObj>>
  /\ popObj \subseteq queued
  /\ popObj # {}

\* C14, the step part: once stopCh is closed, processLoop is not called
\* again after it has returned or before it was first called.
C14_NoRestart ==
  (stopCh /\ runPc \in {"until", "sleep", "wgwait", "returned"}) => runPc' # "pop"

Blocked(w) == waitPc[w] \in {"waiting", "woken"}

\* C15 as stated: after ShutDown every Get that is blocked on an empty
\* queue eventually returns (nil, true).
C15_Original ==
  \A w \in Workers :
    (shuttingDown /\ Blocked(w) /\ queue = <<>>)
      ~> (waitPc[w] = "idle" /\ gotShutdown[w])

\* A step of Get made by w once the queue is shutting down does not block,
\* and on an empty queue it returns (nil, true).
C15_GetStep ==
  \A w \in Workers :
    (shuttingDown /\ lastCall' \in {<<"Get", w>>, <<"GetWake", w>>}
       /\ waitPc[w] \in {"idle", "woken"})
    => /\ waitPc'[w] # "waiting"
       /\ Len(queue) = 0 => (waitPc'[w] = "idle" /\ gotShutdown'[w])
       /\ Len(queue) > 0 => (waitPc'[w] = "working" /\ held'[w] = {Head(queue)})

\* C15: after ShutDown every Get that was blocked on an empty queue
\* eventually returns, and it and every later Get return without blocking:
\* (nil, true) when the queue is empty at that moment, the head of the queue
\* when Done has put an item back in the meantime.
C15_ShutDownWakes ==
  /\ \A w \in Workers : (shuttingDown /\ Blocked(w)) ~> ~Blocked(w)
  /\ [][C15_GetStep]_vars

\* C15 witness: a worker that was woken by ShutDown has returned from Get
\* with shutdown = true.
C15_Witness ==
  \E w \in Workers :
    /\ shuttingDown
    /\ lastCall = <<"GetWake", w>>
    /\ waitPc[w] = "idle"
    /\ gotShutdown[w]
    /\ \E u \in Workers : u # w /\ Blocked(u)

\* C16, the step part: a Get reports shutdown only when the queue is
\* shutting down and empty.
C16_Step ==
  \A w \in Workers :
    (lastCall' \in {<<"Get", w>>, <<"GetWake", w>>}
       /\ waitPc[w] \in {"idle", "woken"}
       /\ waitPc'[w] = "idle")
    => (gotShutdown'[w] /\ shuttingDown /\ queue = <<>>)

\* C16, the state part: the Gets made since ShutDown return the items that
\* were queued when ShutDown was called, in queue order, and once a Get has
\* reported shutdown all of them have been returned.
C16_Drain ==
  /\ IsPrefix(getsSince, atShutDown) \/ IsPrefix(atShutDown, getsSince)
  /\ (\E w \in Workers : gotShutdown[w]) => IsPrefix(atShutDown, getsSince)

\* C16: Get returns shutdown = true only on a queue that is shutting down
\* and empty; the items queued at ShutDown are handed out first, in order.
C16_DrainOnShutDown == [](C16_Drain) /\ [][C16_Step]_vars

\* C16 witness: two items were queued at ShutDown, both have been handed
\* out since, and a Get has reported shutdown.
C16_Witness ==
  /\ Len(atShutDown) >= 2
  /\ getsSince = atShutDown
  /\ \E w \in Workers : gotShutdown[w] /\ waitPc[w] = "idle"

\* C17: once ShutDown has been called Add(x) leaves queue, dirty and
\* processing as they are, and so does Add(x) for an x that is dirty.
C17_Step ==
  \A x \in Items :
    (lastCall' = <<"Add", x>> /\ (shuttingDown \/ x \in dirty))
    => (queue' = queue /\ dirty' = dirty /\ processing' = processing)

C17_AddIgnored == [][C17_Step]_vars

\* C17 witness: an Add was made after ShutDown for an item that is neither
\* dirty nor queued, while another item is being processed.
C17_Witness ==
  \E x \in Items :
    /\ lastCall = <<"Add", x>>
    /\ shuttingDown
    /\ x \notin dirty
    /\ x \notin processing
    /\ processing # {}

\* ------------------------------------------------------------------------
\* C18: MaxOfRateLimiter.When(x) calls When(x) on every child exactly once
\* and returns the maximum of the children's results, 0 with no children;
\* NumRequeues(x) is the maximum of the children's NumRequeues(x); Forget(x)
\* reaches every child.
\* ------------------------------------------------------------------------

MaxOrZero(S) == IF S = {} THEN 0 ELSE CHOOSE m \in S : \A y \in S : y <= m

C18_MaxOf ==
  /\ \A x \in Items :
       moLast = <<"When", x>> =>
         /\ DOMAIN moChildRets = DOMAIN moLimiters
         /\ moRet = MaxOrZero({moChildRets[i] : i \in DOMAIN moChildRets})
         /\ \A i \in DOMAIN moLimiters :
              FailuresOf(moFailures[i], x) = moCalls[x]
  /\ \A x \in Items :
       MaxOfNumRequeues(x) =
         MaxOrZero({FailuresOf(moFailures[i], x) : i \in DOMAIN moLimiters})
  /\ \A x \in Items :
       moLast = <<"Forget", x>> =>
         \A i \in DOMAIN moLimiters : FailuresOf(moFailures[i], x) = 0

\* The same statement for the calls in which no child returned a negative
\* duration.
C18_MaxOfNonNegative ==
  (\A i \in DOMAIN moChildRets : moChildRets[i] >= 0) => C18_MaxOf

\* ------------------------------------------------------------------------
\* C19: for an ItemFastSlowRateLimiter the i-th When(x) since the creation
\* or the last Forget(x) returns fastDelay when i <= maxFastAttempts and
\* slowDelay otherwise.
\* ------------------------------------------------------------------------

C19_FastSlow ==
  limiter.kind = "fastslow" =>
    \A x \in Items :
      rlLast = <<"When", x>> =>
        rlRet = IF calls[x] <= limiter.maxFastAttempts
                  THEN limiter.fastDelay
                  ELSE limiter.slowDelay

\* The first slow delay of an item, after maxFastAttempts > 0 fast ones that
\* followed a Forget.
C19_Witness ==
  /\ limiter.kind = "fastslow"
  /\ limiter.maxFastAttempts > 0
  /\ \E x \in Items :
       /\ rlLast = <<"When", x>>
       /\ wasForgotten[x]
       /\ calls[x] = limiter.maxFastAttempts + 1
       /\ rlRet = limiter.slowDelay

\* ------------------------------------------------------------------------
\* C20: for an ItemExponentialFailureRateLimiter every When(x) returns d
\* with 0 <= d <= maxDelay, and the delays of successive Whens of one item
\* do not decrease until Forget(x).
\* ------------------------------------------------------------------------

C20_InRange ==
  limiter.kind = "exp" =>
    \A x \in Items :
      rlLast = <<"When", x>> => 0 <= rlRet /\ rlRet <= limiter.maxDelay

\* A When(x) that directly follows a When(x) returns no less.
C20_NonDecreasingStep ==
  limiter.kind = "exp" =>
    \A x \in Items :
      rlLast = <<"When", x>> /\ rlLast' = <<"When", x>> /\ calls'[x] = calls[x] + 1
        => rlRet' >= rlRet

C20_ExpWhenIsSafe == [](C20_InRange) /\ [][C20_NonDecreasingStep]_vars

\* ------------------------------------------------------------------------
\* C21: AddRateLimited(x) calls the limiter's When(x) exactly once and hands
\* x to AddAfter with exactly the delay When returned; its effect on the
\* limiter and on the queue is that of AddAfter(x, limiter.When(x)).
\* ------------------------------------------------------------------------

\* A step in which the limiter's When(x) is called once: its effect on the
\* limiter.
WhenOnce(x) ==
  /\ calls'[x] = calls[x] + 1
  /\ failures' = FailuresAfterWhen(failures, x)
  /\ rlRet' \in WhenResults(limiter, failures, x)
  /\ rlLast' = <<"When", x>>

C21_Step ==
  /\ \A x \in Items :
       calls'[x] > calls[x] =>
         /\ WhenOnce(x)
         /\ afterLast' = <<x, rlRet'>>
         /\ waitingForAdd' = waitingForAdd \cup {x}
         /\ UNCHANGED <<queue, dirty, processing>>
  /\ \A x \in Items :
       x \in waitingForAdd' \ waitingForAdd => calls'[x] = calls[x] + 1
  /\ afterLast' # afterLast => \E x \in Items : calls'[x] = calls[x] + 1

C21_AddRateLimited == [][C21_Step]_vars

\* AddRateLimited has scheduled an item with a delay that is neither zero nor
\* the first one of its limiter.
C21_Witness ==
  /\ \E x \in Items :
       /\ rlLast = <<"When", x>>
       /\ calls[x] >= 2
       /\ afterLast = <<x, rlRet>>
       /\ rlRet > 0
       /\ rlRet \notin firstRet[x]
       /\ x \in waitingForAdd

\* ------------------------------------------------------------------------
\* C22: Forget(x) of the rate-limiting queue clears the limiter's state for
\* x and leaves queue, dirty and processing as they are: an item in
\* processing stays there until Done.
\* ------------------------------------------------------------------------

C22_Step ==
  \A x \in Items :
    rlLast' = <<"Forget", x>> /\ rlLast # <<"Forget", x>> =>
      /\ FailuresOf(failures', x) = 0
      /\ UNCHANGED <<queue, dirty, processing, waitingForAdd>>

\* Only Done takes an item out of processing.
C22_OnlyDoneEndsProcessing ==
  \A x \in Items :
    x \in processing /\ x \notin processing' => lastCall' = <<"Done", x>>

C22_ForgetLeavesQueue == [][C22_Step /\ C22_OnlyDoneEndsProcessing]_vars

\* Forget(x) was called for an item that had failed and is being processed.
C22_Witness ==
  \E x \in Items :
    /\ rlLast = <<"Forget", x>>
    /\ wasForgotten[x]
    /\ x \in processing
    /\ FailuresOf(failures, x) = 0

\* ------------------------------------------------------------------------
\* Well-formedness of the Delta FIFO: the queue holds distinct keys, a key
\* is queued exactly when it has Deltas, and no Deltas is empty.
\* ------------------------------------------------------------------------

FifoWellFormed ==
  /\ Range(fifoQueue) = DOMAIN fifoItems
  /\ Len(fifoQueue) = Cardinality(DOMAIN fifoItems)
  /\ \A k \in DOMAIN fifoItems : fifoItems[k] # <<>>

\* ------------------------------------------------------------------------
\* C23: when the key function fails for one item of the list handed to
\* cache.Replace, the items whose keys can be computed still become the
\* store's contents and a KeyError carrying the offending item is returned.
\* ------------------------------------------------------------------------

\* The claim as stated: after the failing Replace the store holds the items
\* of the list that have keys.
C23_ReplaceSkipsFailingItem ==
  lastStore[1] = "ReplaceKeyError" =>
    /\ items = ListItems(EmptyMap, Keyable(lastStore[2]))
    /\ MetaNamespaceKeyFunc(lastStore[3]) = {}
    /\ \E i \in DOMAIN lastStore[2] : lastStore[2][i] = lastStore[3]

\* C23 as the code has it: a Replace whose list holds an item without a key
\* returns a KeyError carrying the first such item and leaves the items and
\* the indices of the store as they were.
C23_Step ==
  lastStore'[1] = "ReplaceKeyError" /\ lastStore' # lastStore =>
    /\ items' = items
    /\ indices' = indices
    /\ LET list == lastStore'[2]
       IN \E i \in DOMAIN list :
            /\ list[i] = lastStore'[3]
            /\ MetaNamespaceKeyFunc(list[i]) = {}
            /\ \A j \in 1..(i - 1) : MetaNamespaceKeyFunc(list[j]) # {}

C23_ReplaceAbortsOnKeyError == [][C23_Step]_vars

\* A Replace failed for a list that also holds an item with a key, on a
\* store that holds something else.
C23_Witness ==
  /\ lastStore[1] = "ReplaceKeyError"
  /\ Keyable(lastStore[2]) # <<>>
  /\ DOMAIN items # {}
  /\ items # ListItems(EmptyMap, Keyable(lastStore[2]))

\* The indices hold a key under a value exactly when the store holds the key
\* with an object that has the value.
IndicesMatchItems ==
  \A n \in indexers, v \in IndexValueSpace, k \in StoreKeys :
     k \in Bucket(n, v)
       <=> (k \in DOMAIN items /\ v \in Range(IndexValues(n, items[k])))

\* A call of the keyed store that returns a KeyError carries an object the
\* key function fails for (for Replace an item of the list) and leaves the
\* items and the indices as they were.
KeyErrorChangesNothing ==
  /\ (lastStore'[1] = "KeyError" /\ lastStore' # lastStore) =>
       /\ MetaNamespaceKeyFunc(lastStore'[3]) = {}
       /\ UNCHANGED <<items, indices, indexers>>
  /\ (lastStore'[1] = "ReplaceKeyError" /\ lastStore' # lastStore) =>
       /\ MetaNamespaceKeyFunc(lastStore'[3]) = {}
       /\ lastStore'[3] \in Range(lastStore'[2])
       /\ UNCHANGED <<items, indices, indexers>>

\* A call of the keyed store that returns no error has computed every key
\* and applied the whole operation: the object is stored under its key, the
\* key is gone, or (once Replace has returned) the items are those of the
\* list, each under its key; and the indices match the items.
NoErrorAppliesAll ==
  LockFree =>
    /\ lastStore[1] \in {"Add", "Update"} =>
         /\ MetaNamespaceKeyFunc(lastStore[3]) = {lastStore[2]}
         /\ lastStore[2] \in DOMAIN items /\ items[lastStore[2]] = lastStore[3]
    /\ lastStore[1] = "Delete" => lastStore[2] \notin DOMAIN items
    /\ lastStore[1] = "Replace" =>
         /\ items = lastStore[2]
         /\ \A k \in DOMAIN items : MetaNamespaceKeyFunc(items[k]) = {k}
    /\ lastStore[1] \notin {"KeyError", "ReplaceKeyError"} => IndicesMatchItems

\* C35: cache.Add, cache.Update, cache.Delete and cache.Replace either
\* compute every key they need and apply the whole operation, or return a
\* KeyError that carries the offending object and leave the stored items
\* and all indices exactly as they were; a Replace whose list has one item
\* without a key changes nothing.
C35_AllOrNothing == []NoErrorAppliesAll /\ [][KeyErrorChangesNothing]_vars

\* An indexed store that holds objects has just refused a Replace whose
\* list had an item with a key and one without: the items, none of which is
\* in the list, and the indices are as they were.
C35_Witness ==
  /\ lastStore[1] = "ReplaceKeyError"
  /\ Len(lastStore[2]) >= 2
  /\ Keyable(lastStore[2]) # <<>>
  /\ indexers # {}
  /\ DOMAIN items # {}
  /\ \E n \in DOMAIN indices : DOMAIN indices[n] # {}
  /\ \A k \in DOMAIN items : items[k] \notin Range(lastStore[2])

\* ------------------------------------------------------------------------
\* C24: for a namespace and a name without '/', SplitMetaNamespaceKey of the
\* key MetaNamespaceKeyFunc builds returns the namespace and the name and no
\* error; SplitMetaNamespaceKey returns an error exactly for the keys with
\* more than one '/'.
\* ------------------------------------------------------------------------

Slashes(str) == Cardinality({i \in DOMAIN str : str[i] = "/"})

C24_KeyRoundTrip ==
  /\ keyPc = "builtSplit" =>
       keySplit = [namespace |-> keyNamespace, name |-> keyName, err |-> FALSE]
  /\ keyPc \in {"builtSplit", "givenSplit"} =>
       (keySplit.err <=> Slashes(keyStr) > 1)

\* A key with a namespace and a name has been built and split.
C24_Witness ==
  /\ keyPc = "builtSplit"
  /\ Len(keyNamespace) > 0
  /\ Len(keyName) > 0
  /\ keyStr = keyNamespace \o <<"/">> \o keyName
  /\ keySplit.namespace = keyNamespace

\* ------------------------------------------------------------------------
\* C25: for every key the delta types handed to the process function are
\* the delta types accepted for the key, in the order of acceptance, two
\* consecutive Deleted counting as one; nothing accepted is lost or
\* reordered.
\* ------------------------------------------------------------------------

Types(deltas) == [i \in DOMAIN deltas |-> deltas[i].Type]

RECURSIVE Collapse(_)
\* A sequence of types with every Deleted that is followed by a Deleted
\* left out.
Collapse(types) ==
  IF Len(types) <= 1
    THEN types
    ELSE IF types[1] = "Deleted" /\ types[2] = "Deleted"
      THEN Collapse(Tail(types))
      ELSE <<Head(types)>> \o Collapse(Tail(types))

\* The Deltas the FIFO holds for a key.
Pending(k) == IF k \in DOMAIN fifoItems THEN fifoItems[k] ELSE <<>>

\* The Deltas Pop has returned with an error of Process and processLoop has
\* not yet put back or dropped.
InFlight(k) ==
  IF runPc = "handle" /\ popErr = "other" /\ \E o \in popObj : o.key = k
    THEN (CHOOSE o \in popObj : TRUE).deltas
    ELSE <<>>

FirstDelivery(k) ==
  IF k \in Range(firstReplace.list)
    THEN <<[Type |-> "Replaced", Object |-> ReportedObj(k)]>>
    ELSE IF k \in DOMAIN firstReplace.known
           THEN <<[Type |-> "Deleted",
                   Object |-> [Key |-> k, Obj |-> {firstReplace.known[k]}]]>>
           ELSE <<>>

\* C26: with the informer's wiring (the store as known objects, Replaced
\* emitted, no put-back), after the first Replace(list) and while no other
\* producer has called, what has been handed to the process function for a
\* key followed by what is still queued for it is exactly one Replaced for
\* a key of the list and exactly one synthesized Deleted for a known key not
\* in the list, so draining the FIFO delivers exactly those; HasSynced is
\* false while a key is still queued and true once all are popped.
C26_FirstReplace ==
  (fifoPhase = "replaced" /\ ~retryOnError) =>
     /\ \A k \in FifoKeys : handed[k] \o Pending(k) = FirstDelivery(k)
     /\ HasSynced <=> fifoQueue = <<>>
     /\ initialPopulationCount = Len(fifoQueue)

\* The first Replace had a key in its list and missed a known key, and both
\* have been popped: the FIFO is drained and reports that it has synced.
C26_Witness ==
  /\ fifoPhase = "replaced"
  /\ ~retryOnError
  /\ fifoQueue = <<>>
  /\ HasSynced
  /\ \E k \in FifoKeys : k \in Range(firstReplace.list) /\ Len(handed[k]) = 1
  /\ \E k \in FifoKeys :
        /\ k \notin Range(firstReplace.list)
        /\ k \in DOMAIN firstReplace.known
        /\ handed[k] = FirstDelivery(k)

====
